---- MODULE Spec2Model ----
(***************************************************************************)
(* Combat engine of Type Strike: GameEngine (tool lookup, validation,      *)
(* effect application, turn upkeep, real-time tick) over the shared TOOLS  *)
(* catalog, and BotAI, which picks the bot's tool and submits it after a   *)
(* delay.                                                                  *)
(*                                                                         *)
(* Representation.  Text is a sequence of one-character strings, so that   *)
(* toLowerCase and trim are computed.  Cooldowns, which the code keeps as  *)
(* floating-point turns or seconds, are kept as integers in thousandths    *)
(* (Milli per unit); timestamps are integer milliseconds.  The `value: 0.5`*)
(* field of the slow effect is never read by the code and is left out.     *)
(* A field that is still undefined (lastCooldownUpdate) holds 0, which     *)
(* `x || now` treats as undefined does; the clock starts above 0.          *)
(*                                                                         *)
(* Time.  The clock moves when the real-time interval fires; a useTool     *)
(* call made between two firings stamps lastAction with the last reading.  *)
(***************************************************************************)
EXTENDS Integers, Sequences, FiniteSets, TLC

VARIABLES
  state,       \* GameEngine.state
  settings,    \* GameEngine.settings
  isRealTime,  \* GameEngine.isRealTime
  now,         \* the last reading of Date.now(), in milliseconds
  result,      \* the value useTool has returned to its caller, until the
               \* caller is done with it
  isThinking,  \* BotAI.isThinking
  timers       \* the callbacks handed to setTimeout that have not run yet,
               \* how many of each kind: start (the end of the countdown),
               \* respond (the bot's reply to a turn-based submission),
               \* decide (takeTurn's), act (startRealTimeLoop's)

vars == <<state, settings, isRealTime, now, result, isThinking, timers>>

----------------------------------------------------------------------------
(* Bounds of the model *)

\* milliseconds between two firings of the real-time interval
TimeStep == 1000

\* real-time matches are followed for MaxTicks firings of the interval
MaxTicks == 1

\* turn-based matches are followed for MaxTurns turn changes
MaxTurns == 4

\* real-time matches are followed while the two entities hold at most
\* MaxUsed cooldown entries between them
MaxUsed == 3

----------------------------------------------------------------------------
(* src/constants/tools.js *)

\* thousandths per cooldown unit and milliseconds per second
Milli == 1000

\* catalog keys in Object.entries order
ToolKeys == <<"iceball", "fireball", "shield", "heal", "lightning", "strike", "dodge">>

TOOLS ==
  [ iceball |->
      [ name |-> "Ice Ball",
        aliases |-> << <<"i", "c", "e", " ", "b", "a", "l", "l">>,
                     <<"i", "c", "e", "b", "a", "l", "l">>,
                     <<"i", "c", "e">> >>,
        type |-> "attack", manaCost |-> 20, cooldown |-> 2,
        effects |-> <<[type |-> "damage", value |-> 25], [type |-> "slow", duration |-> 1]>> ],
    fireball |->
      [ name |-> "Fireball",
        aliases |-> << <<"f", "i", "r", "e", "b", "a", "l", "l">>,
                     <<"f", "i", "r", "e", " ", "b", "a", "l", "l">>,
                     <<"f", "i", "r", "e">> >>,
        type |-> "attack", manaCost |-> 30, cooldown |-> 3,
        effects |-> <<[type |-> "damage", value |-> 40]>> ],
    shield |->
      [ name |-> "Shield",
        aliases |-> << <<"s", "h", "i", "e", "l", "d">>,
                     <<"d", "e", "f", "e", "n", "d">>,
                     <<"b", "l", "o", "c", "k">> >>,
        type |-> "defense", manaCost |-> 15, cooldown |-> 4,
        effects |-> <<[type |-> "shield", value |-> 30, duration |-> 2]>> ],
    heal |->
      [ name |-> "Heal",
        aliases |-> << <<"h", "e", "a", "l">>,
                     <<"r", "e", "s", "t", "o", "r", "e">>,
                     <<"m", "e", "n", "d">> >>,
        type |-> "utility", manaCost |-> 25, cooldown |-> 5,
        effects |-> <<[type |-> "heal", value |-> 35]>> ],
    lightning |->
      [ name |-> "Lightning",
        aliases |-> << <<"l", "i", "g", "h", "t", "n", "i", "n", "g">>,
                     <<"b", "o", "l", "t">>,
                     <<"s", "h", "o", "c", "k">> >>,
        type |-> "attack", manaCost |-> 35, cooldown |-> 4,
        effects |-> <<[type |-> "damage", value |-> 50]>> ],
    strike |->
      [ name |-> "Strike",
        aliases |-> << <<"s", "t", "r", "i", "k", "e">>,
                     <<"h", "i", "t">>,
                     <<"a", "t", "t", "a", "c", "k">> >>,
        type |-> "attack", manaCost |-> 10, cooldown |-> 1,
        effects |-> <<[type |-> "damage", value |-> 15]>> ],
    dodge |->
      [ name |-> "Dodge",
        aliases |-> << <<"d", "o", "d", "g", "e">>,
                     <<"e", "v", "a", "d", "e">>,
                     <<"a", "v", "o", "i", "d">>,
                     <<"j", "u", "m", "p">> >>,
        type |-> "defense", manaCost |-> 10, cooldown |-> 2,
        effects |-> <<[type |-> "dodge", duration |-> 1]>> ] ]

Null == [type |-> "null"]

----------------------------------------------------------------------------
(* Text *)

UpperCase == <<"A","B","C","D","E","F","G","H","I","J","K","L","M",
               "N","O","P","Q","R","S","T","U","V","W","X","Y","Z">>

LowerCase == <<"a","b","c","d","e","f","g","h","i","j","k","l","m",
               "n","o","p","q","r","s","t","u","v","w","x","y","z">>

WhiteSpace == {" ", "\t", "\n"}

\* String.prototype.toLowerCase
toLowerCase(s) ==
  [i \in 1..Len(s) |->
     IF \E j \in 1..Len(UpperCase) : UpperCase[j] = s[i]
     THEN LowerCase[CHOOSE j \in 1..Len(UpperCase) : UpperCase[j] = s[i]]
     ELSE s[i]]

\* String.prototype.trim
trim(s) ==
  LET keep == {i \in 1..Len(s) : s[i] \notin WhiteSpace}
  IN IF keep = {} THEN <<>>
     ELSE LET lo == CHOOSE i \in keep : \A j \in keep : i <= j
              hi == CHOOSE i \in keep : \A j \in keep : j <= i
          IN SubSeq(s, lo, hi)

\* texts submitted to useTool: the display names the bot submits, typed
\* aliases in several spellings, and texts that are no alias
Inputs ==
  { <<"I", "c", "e", " ", "B", "a", "l", "l">>,
    <<"F", "i", "r", "e", "b", "a", "l", "l">>,
    <<"S", "h", "i", "e", "l", "d">>,
    <<"H", "e", "a", "l">>,
    <<"L", "i", "g", "h", "t", "n", "i", "n", "g">>,
    <<"S", "t", "r", "i", "k", "e">>,
    <<"D", "o", "d", "g", "e">>,
    <<"f", "i", "r", "e", "b", "a", "l", "l">>,
    <<" ", "F", "I", "R", "E", " ">>,
    <<"f", "i", "r">>,
    <<>> }


----------------------------------------------------------------------------
(* GameEngine *)

Entity0 ==
  [ hp |-> 100, maxHp |-> 100, mana |-> 100, maxMana |-> 100, shield |-> 0,
    cooldowns |-> [k \in {} |-> 0], statusEffects |-> <<>>,
    isDodging |-> FALSE, lastManaRegen |-> now, lastCooldownUpdate |-> 0 ]

getInitialState ==
  [ player |-> Entity0, bot |-> Entity0, turn |-> "player", turnCount |-> 0,
    gameOver |-> FALSE, winner |-> "null", lastAction |-> Null ]

\* findTool taking a text that some alias begins with for that alias
findToolByPrefix(input) ==
  LET normalized == trim(toLowerCase(input))
      begins(alias) == /\ Len(normalized) <= Len(alias)
                       /\ SubSeq(alias, 1, Len(normalized)) = normalized
      matches(key) == \E a \in 1..Len(TOOLS[key].aliases) : begins(TOOLS[key].aliases[a])
      hits == {i \in 1..Len(ToolKeys) : matches(ToolKeys[i])}
  IN IF hits = {} THEN Null
     ELSE LET first == CHOOSE i \in hits : \A j \in hits : i <= j
          IN [key |-> ToolKeys[first]] @@ TOOLS[ToolKeys[first]]

\* findTool(input): `{ key, ...tool }` of the first catalog entry one of
\* whose aliases is the normalized input, or null
findTool(input) ==
  LET normalized == trim(toLowerCase(input))
      matches(key) == \E a \in 1..Len(TOOLS[key].aliases) : TOOLS[key].aliases[a] = normalized
      hits == {i \in 1..Len(ToolKeys) : matches(ToolKeys[i])}
  IN IF hits = {} THEN Null
     ELSE LET first == CHOOSE i \in hits : \A j \in hits : i <= j
          IN [key |-> ToolKeys[first]] @@ TOOLS[ToolKeys[first]]


\* findTool tabulated over the submitted texts (the catalog is constant)
findToolOf == [input \in Inputs |-> findTool(input)]

\* `${n}` for a number kept in thousandths
NumberToString(v) ==
  LET frac == v % Milli
      d1 == frac \div 100
      d2 == (frac \div 10) % 10
      d3 == frac % 10
  IN ToString(v \div Milli) \o
       (IF frac = 0 THEN ""
        ELSE "." \o ToString(d1) \o
             (IF d2 = 0 /\ d3 = 0 THEN ""
              ELSE ToString(d2) \o (IF d3 = 0 THEN "" ELSE ToString(d3))))

Min(a, b) == IF a <= b THEN a ELSE b

Max(a, b) == IF a >= b THEN a ELSE b

\* entity.cooldowns[toolKey] || 0
cooldownOf(entity, toolKey) ==
  IF toolKey \in DOMAIN entity.cooldowns THEN entity.cooldowns[toolKey] ELSE 0

\* entity.cooldowns[toolKey] = v
setCooldown(cooldowns, toolKey, v) ==
  [k \in DOMAIN cooldowns \cup {toolKey} |-> IF k = toolKey THEN v ELSE cooldowns[k]]

\* canUseTool without the test of the dodging setting
canUseToolDodgeAllowed(entity, toolKey) ==
  IF toolKey \notin DOMAIN TOOLS
  THEN [valid |-> FALSE, reason |-> "Tool not found"]
  ELSE IF entity.mana < TOOLS[toolKey].manaCost
  THEN [valid |-> FALSE, reason |-> "Not enough mana"]
  ELSE IF cooldownOf(entity, toolKey) > 0
  THEN [valid |-> FALSE,
        reason |-> "Cooldown: " \o NumberToString(cooldownOf(entity, toolKey))
                     \o (IF isRealTime THEN "s" ELSE " turns")]
  ELSE [valid |-> TRUE]

\* canUseTool testing the cooldown before the mana
canUseToolCooldownFirst(entity, toolKey) ==
  IF toolKey \notin DOMAIN TOOLS
  THEN [valid |-> FALSE, reason |-> "Tool not found"]
  ELSE IF toolKey = "dodge" /\ ~settings.dodgingEnabled
  THEN [valid |-> FALSE, reason |-> "Dodging is disabled"]
  ELSE IF cooldownOf(entity, toolKey) > 0
  THEN [valid |-> FALSE,
        reason |-> "Cooldown: " \o NumberToString(cooldownOf(entity, toolKey))
                     \o (IF isRealTime THEN "s" ELSE " turns")]
  ELSE IF entity.mana < TOOLS[toolKey].manaCost
  THEN [valid |-> FALSE, reason |-> "Not enough mana"]
  ELSE [valid |-> TRUE]

canUseTool(entity, toolKey) ==
  IF toolKey \notin DOMAIN TOOLS
  THEN [valid |-> FALSE, reason |-> "Tool not found"]
  ELSE IF toolKey = "dodge" /\ ~settings.dodgingEnabled
  THEN [valid |-> FALSE, reason |-> "Dodging is disabled"]
  ELSE IF entity.mana < TOOLS[toolKey].manaCost
  THEN [valid |-> FALSE, reason |-> "Not enough mana"]
  ELSE IF cooldownOf(entity, toolKey) > 0
  THEN [valid |-> FALSE,
        reason |-> "Cooldown: " \o NumberToString(cooldownOf(entity, toolKey))
                     \o (IF isRealTime THEN "s" ELSE " turns")]
  ELSE [valid |-> TRUE]

\* applyEffect leaving the dodge flag of a target that dodged set
applyEffectDodgeKept(effect, caster, target) ==
  CASE effect.type = "damage" ->
         IF target.isDodging
         THEN [caster |-> caster,
               target |-> target,
               result |-> [type |-> "damage", value |-> 0, dodged |-> TRUE]]
         ELSE IF target.shield > 0
         THEN LET absorbed == Min(target.shield, effect.value)
                  damage == effect.value - absorbed
              IN [caster |-> caster,
                  target |-> [target EXCEPT
                                !.shield = @ - absorbed,
                                !.hp = IF damage > 0 THEN Max(0, @ - damage) ELSE @],
                  result |-> [type |-> "damage", value |-> effect.value,
                              absorbed |-> absorbed, final |-> damage]]
         ELSE [caster |-> caster,
               target |-> [target EXCEPT !.hp = Max(0, @ - effect.value)],
               result |-> [type |-> "damage", value |-> effect.value]]
    [] effect.type = "heal" ->
         [caster |-> [caster EXCEPT !.hp = Min(caster.maxHp, @ + effect.value)],
          target |-> target,
          result |-> [type |-> "heal",
                      value |-> Min(effect.value, caster.maxHp - caster.hp)]]
    [] effect.type = "shield" ->
         [caster |-> [caster EXCEPT !.shield = @ + effect.value],
          target |-> target,
          result |-> [type |-> "shield", value |-> effect.value]]
    [] effect.type = "dodge" ->
         [caster |-> [caster EXCEPT !.isDodging = TRUE],
          target |-> target,
          result |-> [type |-> "dodge", duration |-> effect.duration]]
    [] effect.type = "slow" ->
         [caster |-> caster, target |-> target,
          result |-> [type |-> "slow", duration |-> effect.duration]]
    [] OTHER ->
         [caster |-> caster, target |-> target, result |-> [type |-> "unknown"]]

\* applyEffect taking the whole amount from HP, shield or not
applyEffectHpFirst(effect, caster, target) ==
  CASE effect.type = "damage" ->
         IF target.isDodging
         THEN [caster |-> caster,
               target |-> [target EXCEPT !.isDodging = FALSE],
               result |-> [type |-> "damage", value |-> 0, dodged |-> TRUE]]
         ELSE IF target.shield > 0
         THEN LET absorbed == Min(target.shield, effect.value)
                  damage == effect.value - absorbed
              IN [caster |-> caster,
                  target |-> [target EXCEPT
                                !.shield = @ - absorbed,
                                !.hp = Max(0, @ - effect.value)],
                  result |-> [type |-> "damage", value |-> effect.value,
                              absorbed |-> absorbed, final |-> damage]]
         ELSE [caster |-> caster,
               target |-> [target EXCEPT !.hp = Max(0, @ - effect.value)],
               result |-> [type |-> "damage", value |-> effect.value]]
    [] effect.type = "heal" ->
         [caster |-> [caster EXCEPT !.hp = Min(caster.maxHp, @ + effect.value)],
          target |-> target,
          result |-> [type |-> "heal",
                      value |-> Min(effect.value, caster.maxHp - caster.hp)]]
    [] effect.type = "shield" ->
         [caster |-> [caster EXCEPT !.shield = @ + effect.value],
          target |-> target,
          result |-> [type |-> "shield", value |-> effect.value]]
    [] effect.type = "dodge" ->
         [caster |-> [caster EXCEPT !.isDodging = TRUE],
          target |-> target,
          result |-> [type |-> "dodge", duration |-> effect.duration]]
    [] effect.type = "slow" ->
         [caster |-> caster, target |-> target,
          result |-> [type |-> "slow", duration |-> effect.duration]]
    [] OTHER ->
         [caster |-> caster, target |-> target, result |-> [type |-> "unknown"]]

\* applyEffect reporting the requested amount as healed
applyEffectHealRequested(effect, caster, target) ==
  CASE effect.type = "damage" ->
         IF target.isDodging
         THEN [caster |-> caster,
               target |-> [target EXCEPT !.isDodging = FALSE],
               result |-> [type |-> "damage", value |-> 0, dodged |-> TRUE]]
         ELSE IF target.shield > 0
         THEN LET absorbed == Min(target.shield, effect.value)
                  damage == effect.value - absorbed
              IN [caster |-> caster,
                  target |-> [target EXCEPT
                                !.shield = @ - absorbed,
                                !.hp = IF damage > 0 THEN Max(0, @ - damage) ELSE @],
                  result |-> [type |-> "damage", value |-> effect.value,
                              absorbed |-> absorbed, final |-> damage]]
         ELSE [caster |-> caster,
               target |-> [target EXCEPT !.hp = Max(0, @ - effect.value)],
               result |-> [type |-> "damage", value |-> effect.value]]
    [] effect.type = "heal" ->
         [caster |-> [caster EXCEPT !.hp = Min(caster.maxHp, @ + effect.value)],
          target |-> target,
          result |-> [type |-> "heal", value |-> effect.value]]
    [] effect.type = "shield" ->
         [caster |-> [caster EXCEPT !.shield = @ + effect.value],
          target |-> target,
          result |-> [type |-> "shield", value |-> effect.value]]
    [] effect.type = "dodge" ->
         [caster |-> [caster EXCEPT !.isDodging = TRUE],
          target |-> target,
          result |-> [type |-> "dodge", duration |-> effect.duration]]
    [] effect.type = "slow" ->
         [caster |-> caster, target |-> target,
          result |-> [type |-> "slow", duration |-> effect.duration]]
    [] OTHER ->
         [caster |-> caster, target |-> target, result |-> [type |-> "unknown"]]

\* applyEffect marking the target of a slow effect as slowed
applyEffectSlowStatus(effect, caster, target) ==
  CASE effect.type = "damage" ->
         IF target.isDodging
         THEN [caster |-> caster,
               target |-> [target EXCEPT !.isDodging = FALSE],
               result |-> [type |-> "damage", value |-> 0, dodged |-> TRUE]]
         ELSE IF target.shield > 0
         THEN LET absorbed == Min(target.shield, effect.value)
                  damage == effect.value - absorbed
              IN [caster |-> caster,
                  target |-> [target EXCEPT
                                !.shield = @ - absorbed,
                                !.hp = IF damage > 0 THEN Max(0, @ - damage) ELSE @],
                  result |-> [type |-> "damage", value |-> effect.value,
                              absorbed |-> absorbed, final |-> damage]]
         ELSE [caster |-> caster,
               target |-> [target EXCEPT !.hp = Max(0, @ - effect.value)],
               result |-> [type |-> "damage", value |-> effect.value]]
    [] effect.type = "heal" ->
         [caster |-> [caster EXCEPT !.hp = Min(caster.maxHp, @ + effect.value)],
          target |-> target,
          result |-> [type |-> "heal",
                      value |-> Min(effect.value, caster.maxHp - caster.hp)]]
    [] effect.type = "shield" ->
         [caster |-> [caster EXCEPT !.shield = @ + effect.value],
          target |-> target,
          result |-> [type |-> "shield", value |-> effect.value]]
    [] effect.type = "dodge" ->
         [caster |-> [caster EXCEPT !.isDodging = TRUE],
          target |-> target,
          result |-> [type |-> "dodge", duration |-> effect.duration]]
    [] effect.type = "slow" ->
         [caster |-> caster,
          target |-> [target EXCEPT !.statusEffects = Append(@, "slow")],
          result |-> [type |-> "slow", duration |-> effect.duration]]
    [] OTHER ->
         [caster |-> caster, target |-> target, result |-> [type |-> "unknown"]]

\* one effect against (caster, target); yields both entities and the
\* effect's result record
applyEffect(effect, caster, target) ==
  CASE effect.type = "damage" ->
         IF target.isDodging
         THEN [caster |-> caster,
               target |-> [target EXCEPT !.isDodging = FALSE],
               result |-> [type |-> "damage", value |-> 0, dodged |-> TRUE]]
         ELSE IF target.shield > 0
         THEN LET absorbed == Min(target.shield, effect.value)
                  damage == effect.value - absorbed
              IN [caster |-> caster,
                  target |-> [target EXCEPT
                                !.shield = @ - absorbed,
                                !.hp = IF damage > 0 THEN Max(0, @ - damage) ELSE @],
                  result |-> [type |-> "damage", value |-> effect.value,
                              absorbed |-> absorbed, final |-> damage]]
         ELSE [caster |-> caster,
               target |-> [target EXCEPT !.hp = Max(0, @ - effect.value)],
               result |-> [type |-> "damage", value |-> effect.value]]
    [] effect.type = "heal" ->
         [caster |-> [caster EXCEPT !.hp = Min(caster.maxHp, @ + effect.value)],
          target |-> target,
          result |-> [type |-> "heal",
                      value |-> Min(effect.value, caster.maxHp - caster.hp)]]
    [] effect.type = "shield" ->
         [caster |-> [caster EXCEPT !.shield = @ + effect.value],
          target |-> target,
          result |-> [type |-> "shield", value |-> effect.value]]
    [] effect.type = "dodge" ->
         [caster |-> [caster EXCEPT !.isDodging = TRUE],
          target |-> target,
          result |-> [type |-> "dodge", duration |-> effect.duration]]
    [] effect.type = "slow" ->
         [caster |-> caster, target |-> target,
          result |-> [type |-> "slow", duration |-> effect.duration]]
    [] OTHER ->
         [caster |-> caster, target |-> target, result |-> [type |-> "unknown"]]

\* the loop of useTool stopping after one effect
applyEffectsFirstOnly(effects, i, caster, target, results) ==
  IF i > Len(effects)
  THEN [caster |-> caster, target |-> target, results |-> results]
  ELSE LET r == applyEffect(effects[i], caster, target)
       IN [caster |-> r.caster, target |-> r.target,
           results |-> Append(results, r.result)]

\* the loop `for (const effect of tool.effects)` of useTool, from effect i on
RECURSIVE applyEffects(_, _, _, _, _)
applyEffects(effects, i, caster, target, results) ==
  IF i > Len(effects)
  THEN [caster |-> caster, target |-> target, results |-> results]
  ELSE LET r == applyEffect(effects[i], caster, target)
       IN applyEffects(effects, i + 1, r.caster, r.target, Append(results, r.result))

\* checkGameOver naming the fallen entity as the winner
checkGameOverSwapped(S) ==
  IF S.player.hp <= 0
  THEN [S EXCEPT !.gameOver = TRUE, !.winner = "player"]
  ELSE IF S.bot.hp <= 0
  THEN [S EXCEPT !.gameOver = TRUE, !.winner = "bot"]
  ELSE S

\* checkGameOver ending the match as soon as an entity is down to 10 HP
checkGameOverEarly(S) ==
  IF S.player.hp <= 10
  THEN [S EXCEPT !.gameOver = TRUE, !.winner = "bot"]
  ELSE IF S.bot.hp <= 10
  THEN [S EXCEPT !.gameOver = TRUE, !.winner = "player"]
  ELSE S

checkGameOver(S) ==
  IF S.player.hp <= 0
  THEN [S EXCEPT !.gameOver = TRUE, !.winner = "bot"]
  ELSE IF S.bot.hp <= 0
  THEN [S EXCEPT !.gameOver = TRUE, !.winner = "player"]
  ELSE S

\* endTurnEntity with the regenerated mana left uncapped
endTurnEntityUncapped(entity) ==
  [entity EXCEPT
     !.cooldowns = [k \in DOMAIN @ |-> Max(0, @[k] - 1 * Milli)],
     !.mana = @ + 10,
     !.isDodging = FALSE]

\* the upkeep of one entity leaving its cooldowns as they are
endTurnEntityCooldownsKept(entity) ==
  [entity EXCEPT
     !.mana = Min(entity.maxMana, @ + 10),
     !.isDodging = FALSE]

\* the body of endTurn's loop for one entity
endTurnEntity(entity) ==
  [entity EXCEPT
     !.cooldowns = [k \in DOMAIN @ |-> Max(0, @[k] - 1 * Milli)],
     !.mana = Min(entity.maxMana, @ + 10),
     !.isDodging = FALSE]

\* endTurn that forgets to count the turn
endTurnNoCount(S) ==
  [S EXCEPT
     !.player = endTurnEntity(@),
     !.bot = endTurnEntity(@),
     !.turn = IF @ = "player" THEN "bot" ELSE "player"]

\* endTurn that leaves the turn with the entity that just acted
endTurnKeepsTurn(S) ==
  [S EXCEPT
     !.player = endTurnEntity(@),
     !.bot = endTurnEntity(@),
     !.turnCount = @ + 1]

\* endTurn running the upkeep for the entity that just acted only
endTurnTurnHolder(S) ==
  [S EXCEPT
     ![S.turn] = endTurnEntity(@),
     !.turn = IF @ = "player" THEN "bot" ELSE "player",
     !.turnCount = @ + 1]

endTurn(S) ==
  [S EXCEPT
     !.player = endTurnEntity(@),
     !.bot = endTurnEntity(@),
     !.turn = IF @ = "player" THEN "bot" ELSE "player",
     !.turnCount = @ + 1]

\* isPlayer ? "player" : "bot"
sideOf(isPlayer) == IF isPlayer THEN "player" ELSE "bot"

\* a failure that costs the turn
failureWastesTurn(S, msg) ==
  [state |-> endTurn(S), ret |-> [success |-> FALSE, message |-> msg]]

\* `return { success: false, message }`: the match state is as it was
failure(S, msg) ==
  [state |-> S, ret |-> [success |-> FALSE, message |-> msg]]

\* useTool without its turn check
wrongTurnNever(S, isPlayer) == FALSE

\* the turn check of useTool made in real-time matches too
wrongTurnAnyMode(S, isPlayer) == S.turn # sideOf(isPlayer)

\* the turn check of useTool
wrongTurn(S, isPlayer) ==
  ~isRealTime /\ S.turn # sideOf(isPlayer)

\* payCost that forgets the mana cost
payCostFree(caster, tool) ==
  [caster EXCEPT
     !.cooldowns = setCooldown(@, tool.key, tool.cooldown * Milli)]

\* payCost setting a cooldown one longer than the catalog's
payCostLongerCooldown(caster, tool) ==
  [caster EXCEPT
     !.mana = @ - tool.manaCost,
     !.cooldowns = setCooldown(@, tool.key, (tool.cooldown + 1) * Milli)]

\* payCost starting the caster's cooldown table afresh
payCostFreshCooldowns(caster, tool) ==
  [caster EXCEPT
     !.mana = @ - tool.manaCost,
     !.cooldowns = setCooldown([k \in {} |-> 0], tool.key, tool.cooldown * Milli)]

\* the caster pays the mana cost and the tool goes on cooldown
payCost(caster, tool) ==
  [caster EXCEPT
     !.mana = @ - tool.manaCost,
     !.cooldowns = setCooldown(@, tool.key, tool.cooldown * Milli)]

\* useTool resolving the tool before it tests the turn
useToolLookupFirst(S, toolInput, isPlayer) ==
  LET tool == findToolOf[toolInput]
      caster == IF isPlayer THEN S.player ELSE S.bot
      target == IF isPlayer THEN S.bot ELSE S.player
  IN IF S.gameOver THEN failure(S, "Game is over")
     ELSE IF tool = Null THEN failure(S, "Unknown tool")
     ELSE IF wrongTurn(S, isPlayer) THEN failure(S, "Not your turn")
     ELSE LET canUse == canUseTool(caster, tool.key)
          IN IF ~canUse.valid THEN failure(S, canUse.reason)
             ELSE
               LET done == applyEffects(tool.effects, 1, payCost(caster, tool),
                                        target, <<>>)
                   S1 == [S EXCEPT
                            !.player = IF isPlayer THEN done.caster ELSE done.target,
                            !.bot = IF isPlayer THEN done.target ELSE done.caster,
                            !.lastAction =
                               [caster |-> sideOf(isPlayer), tool |-> tool.name,
                                toolKey |-> tool.key, results |-> done.results,
                                timestamp |-> now]]
                   S2 == checkGameOver(S1)
                   S3 == IF ~isRealTime /\ ~S2.gameOver THEN endTurn(S2) ELSE S2
               IN [state |-> S3,
                   ret |-> [success |-> TRUE, tool |-> tool.name,
                            results |-> done.results,
                            message |-> tool.name \o " used!"]]

\* useTool running the upkeep and handing the turn over after a turn-based
\* action that ended the match
useToolTerminalUpkeep(S, toolInput, isPlayer) ==
  LET tool == findToolOf[toolInput]
      caster == IF isPlayer THEN S.player ELSE S.bot
      target == IF isPlayer THEN S.bot ELSE S.player
  IN IF S.gameOver THEN failure(S, "Game is over")
     ELSE IF wrongTurn(S, isPlayer) THEN failure(S, "Not your turn")
     ELSE IF tool = Null THEN failure(S, "Unknown tool")
     ELSE LET canUse == canUseTool(caster, tool.key)
          IN IF ~canUse.valid THEN failure(S, canUse.reason)
             ELSE
               LET done == applyEffects(tool.effects, 1, payCost(caster, tool),
                                        target, <<>>)
                   S1 == [S EXCEPT
                            !.player = IF isPlayer THEN done.caster ELSE done.target,
                            !.bot = IF isPlayer THEN done.target ELSE done.caster,
                            !.lastAction =
                               [caster |-> sideOf(isPlayer), tool |-> tool.name,
                                toolKey |-> tool.key, results |-> done.results,
                                timestamp |-> now]]
                   S2 == checkGameOver(S1)
                   S3 == IF isRealTime THEN S2
                         ELSE IF S2.gameOver THEN endTurnNoCount(S2)
                         ELSE endTurn(S2)
               IN [state |-> S3,
                   ret |-> [success |-> TRUE, tool |-> tool.name,
                            results |-> done.results,
                            message |-> tool.name \o " used!"]]

\* useTool returning the time of the action with its result
useToolStamped(S, toolInput, isPlayer) ==
  LET tool == findToolOf[toolInput]
      caster == IF isPlayer THEN S.player ELSE S.bot
      target == IF isPlayer THEN S.bot ELSE S.player
  IN IF S.gameOver THEN failure(S, "Game is over")
     ELSE IF wrongTurn(S, isPlayer) THEN failure(S, "Not your turn")
     ELSE IF tool = Null THEN failure(S, "Unknown tool")
     ELSE LET canUse == canUseTool(caster, tool.key)
          IN IF ~canUse.valid THEN failure(S, canUse.reason)
             ELSE
               LET done == applyEffects(tool.effects, 1, payCost(caster, tool),
                                        target, <<>>)
                   S1 == [S EXCEPT
                            !.player = IF isPlayer THEN done.caster ELSE done.target,
                            !.bot = IF isPlayer THEN done.target ELSE done.caster,
                            !.lastAction =
                               [caster |-> sideOf(isPlayer), tool |-> tool.name,
                                toolKey |-> tool.key, results |-> done.results,
                                timestamp |-> now]]
                   S2 == checkGameOver(S1)
                   S3 == IF ~isRealTime /\ ~S2.gameOver THEN endTurn(S2) ELSE S2
               IN [state |-> S3,
                   ret |-> [success |-> TRUE, tool |-> tool.name,
                            results |-> done.results,
                            message |-> tool.name \o " used!",
                            timestamp |-> now]]

\* useTool(toolInput, isPlayer) on match state S: the state it leaves and the
\* value it returns
useTool(S, toolInput, isPlayer) ==
  LET tool == findToolOf[toolInput]
      caster == IF isPlayer THEN S.player ELSE S.bot
      target == IF isPlayer THEN S.bot ELSE S.player
  IN IF S.gameOver THEN failure(S, "Game is over")
     ELSE IF wrongTurn(S, isPlayer) THEN failure(S, "Not your turn")
     ELSE IF tool = Null THEN failure(S, "Unknown tool")
     ELSE LET canUse == canUseTool(caster, tool.key)
          IN IF ~canUse.valid THEN failure(S, canUse.reason)
             ELSE
               LET done == applyEffects(tool.effects, 1, payCost(caster, tool),
                                        target, <<>>)
                   S1 == [S EXCEPT
                            !.player = IF isPlayer THEN done.caster ELSE done.target,
                            !.bot = IF isPlayer THEN done.target ELSE done.caster,
                            !.lastAction =
                               [caster |-> sideOf(isPlayer), tool |-> tool.name,
                                toolKey |-> tool.key, results |-> done.results,
                                timestamp |-> now]]
                   S2 == checkGameOver(S1)
                   S3 == IF ~isRealTime /\ ~S2.gameOver THEN endTurn(S2) ELSE S2
               IN [state |-> S3,
                   ret |-> [success |-> TRUE, tool |-> tool.name,
                            results |-> done.results,
                            message |-> tool.name \o " used!"]]

\* the loop body of updateRealTime regenerating mana at every firing
updateRealTimeEntityEveryTick(entity, t) ==
  LET last == IF entity.lastCooldownUpdate = 0 THEN t ELSE entity.lastCooldownUpdate
      timePassed == t - last
  IN [entity EXCEPT
        !.mana = Min(entity.maxMana, @ + 10),
        !.lastManaRegen = t,
        !.cooldowns = [k \in DOMAIN @ |->
                         IF @[k] > 0 THEN Max(0, @[k] - timePassed) ELSE @[k]],
        !.lastCooldownUpdate = t]

\* the body of updateRealTime's loop for one entity, the clock reading t
updateRealTimeEntity(entity, t) ==
  LET regen == t - entity.lastManaRegen >= 1000
      last == IF entity.lastCooldownUpdate = 0 THEN t ELSE entity.lastCooldownUpdate
      timePassed == t - last
  IN [entity EXCEPT
        !.mana = IF regen THEN Min(entity.maxMana, @ + 10) ELSE @,
        !.lastManaRegen = IF regen THEN t ELSE @,
        !.cooldowns = [k \in DOMAIN @ |->
                         IF @[k] > 0 THEN Max(0, @[k] - timePassed) ELSE @[k]],
        !.lastCooldownUpdate = t]

updateRealTime(S, t) ==
  [S EXCEPT !.player = updateRealTimeEntity(@, t), !.bot = updateRealTimeEntity(@, t)]

\* the value of a call that returns nothing
Undefined == [type |-> "undefined"]

----------------------------------------------------------------------------
(* BotAI *)

\* the text of a tool's display name
NameText(name) ==
  IF name = "Ice Ball" THEN <<"I", "c", "e", " ", "B", "a", "l", "l">>
  ELSE IF name = "Fireball" THEN <<"F", "i", "r", "e", "b", "a", "l", "l">>
  ELSE IF name = "Shield" THEN <<"S", "h", "i", "e", "l", "d">>
  ELSE IF name = "Heal" THEN <<"H", "e", "a", "l">>
  ELSE IF name = "Lightning" THEN <<"L", "i", "g", "h", "t", "n", "i", "n", "g">>
  ELSE IF name = "Strike" THEN <<"S", "t", "r", "i", "k", "e">>
  ELSE IF name = "Dodge" THEN <<"D", "o", "d", "g", "e">>
  ELSE <<>>

\* what makeDecision returns when it selects nothing (null), and what find
\* yields when it finds nothing (undefined): both are falsy to the caller
NoTool == "null"

\* the outcomes of the calls of Math.random() in one makeDecision: whether
\* the first exceeds 0.7, whether the second exceeds 0.6, and the third, in
\* units of 1 / Len(ToolKeys)
Randoms == [dodge : BOOLEAN, shield : BOOLEAN, pick : 0..(Len(ToolKeys) - 1)]

\* `tool.effects.find((e) => e.type === "damage")?.value || 0`
damageOf(key) ==
  LET effects == TOOLS[key].effects
      hits == {i \in 1..Len(effects) : effects[i].type = "damage"}
  IN IF hits = {} THEN 0
     ELSE effects[CHOOSE i \in hits : \A j \in hits : i <= j].value

\* the attack tools sorted by rising damage
AttackOrderWeakestFirst ==
  LET attackers == {i \in 1..Len(ToolKeys) : TOOLS[ToolKeys[i]].type = "attack"}
      before(i, j) == \/ damageOf(ToolKeys[i]) < damageOf(ToolKeys[j])
                      \/ damageOf(ToolKeys[i]) = damageOf(ToolKeys[j]) /\ i < j
      place(i) == 1 + Cardinality({j \in attackers : before(j, i)})
  IN [p \in 1..Cardinality(attackers) |->
        ToolKeys[CHOOSE i \in attackers : place(i) = p]]

\* the attack tools of the catalog as `attacks.sort((a, b) => bDmg - aDmg)`
\* orders them: by falling damage, and, the sort being stable, in catalog
\* order where the damage is the same.  The available attacks, sorted, are
\* the available ones of these in this order.
AttackOrder ==
  LET attackers == {i \in 1..Len(ToolKeys) : TOOLS[ToolKeys[i]].type = "attack"}
      before(i, j) == \/ damageOf(ToolKeys[i]) > damageOf(ToolKeys[j])
                      \/ damageOf(ToolKeys[i]) = damageOf(ToolKeys[j]) /\ i < j
      place(i) == 1 + Cardinality({j \in attackers : before(j, i)})
  IN [p \in 1..Cardinality(attackers) |->
        ToolKeys[CHOOSE i \in attackers : place(i) = p]]

\* every tool available, whatever canUseTool says
availableAlways(bot, key) == TRUE

\* whether key is among availableTools, the catalog tools that pass
\* engine.canUseTool(bot, key)
available(bot, key) == canUseTool(bot, key).valid

\* makeDecision choosing shield without looking for it among the available
makeDecisionsShieldBlind(S) ==
  LET bot == S.bot
      availableTools == SelectSeq(ToolKeys, LAMBDA key : available(bot, key))
      attacks == SelectSeq(AttackOrder, LAMBDA key : available(bot, key))
      byHeal == bot.hp < 40 /\ bot.mana >= 25 /\ available(bot, "heal")
      byShield == bot.shield = 0 /\ bot.mana >= 15 /\ TRUE
      chosenTool(random) ==
        IF settings.dodgingEnabled /\ random.dodge /\ available(bot, "dodge")
        THEN "dodge"
        ELSE IF byHeal THEN "heal"
        ELSE IF byShield /\ random.shield THEN "shield"
        ELSE IF Len(attacks) > 0 THEN attacks[1]
        ELSE availableTools[(random.pick * Len(availableTools))
                              \div Len(ToolKeys) + 1]
  IN IF Len(availableTools) = 0 THEN {NoTool}
     ELSE {TOOLS[chosenTool(random)].name : random \in Randoms}

\* makeDecision trying the shield rule before the heal rule
makeDecisionsShieldFirst(S) ==
  LET bot == S.bot
      availableTools == SelectSeq(ToolKeys, LAMBDA key : available(bot, key))
      attacks == SelectSeq(AttackOrder, LAMBDA key : available(bot, key))
      byHeal == bot.hp < 40 /\ bot.mana >= 25 /\ available(bot, "heal")
      byShield == bot.shield = 0 /\ bot.mana >= 15 /\ available(bot, "shield")
      chosenTool(random) ==
        IF settings.dodgingEnabled /\ random.dodge /\ available(bot, "dodge")
        THEN "dodge"
        ELSE IF byShield /\ random.shield THEN "shield"
        ELSE IF byHeal THEN "heal"
        ELSE IF Len(attacks) > 0 THEN attacks[1]
        ELSE availableTools[(random.pick * Len(availableTools))
                              \div Len(ToolKeys) + 1]
  IN IF Len(availableTools) = 0 THEN {NoTool}
     ELSE {TOOLS[chosenTool(random)].name : random \in Randoms}

\* makeDecision healing at any HP
makeDecisionsHealAlways(S) ==
  LET bot == S.bot
      availableTools == SelectSeq(ToolKeys, LAMBDA key : available(bot, key))
      attacks == SelectSeq(AttackOrder, LAMBDA key : available(bot, key))
      byHeal == bot.mana >= 25 /\ available(bot, "heal")
      byShield == bot.shield = 0 /\ bot.mana >= 15 /\ available(bot, "shield")
      chosenTool(random) ==
        IF settings.dodgingEnabled /\ random.dodge /\ available(bot, "dodge")
        THEN "dodge"
        ELSE IF byHeal THEN "heal"
        ELSE IF byShield /\ random.shield THEN "shield"
        ELSE IF Len(attacks) > 0 THEN attacks[1]
        ELSE availableTools[(random.pick * Len(availableTools))
                              \div Len(ToolKeys) + 1]
  IN IF Len(availableTools) = 0 THEN {NoTool}
     ELSE {TOOLS[chosenTool(random)].name : random \in Randoms}

\* makeDecision() on match state S: the values it may return, one for each
\* outcome of its random draws; a value is the display name of the chosen
\* tool, or NoTool.  A rule whose find() comes back empty leaves chosenTool
\* unset, as a rule that does not apply does.
makeDecisions(S) ==
  LET bot == S.bot
      availableTools == SelectSeq(ToolKeys, LAMBDA key : available(bot, key))
      attacks == SelectSeq(AttackOrder, LAMBDA key : available(bot, key))
      byHeal == bot.hp < 40 /\ bot.mana >= 25 /\ available(bot, "heal")
      byShield == bot.shield = 0 /\ bot.mana >= 15 /\ available(bot, "shield")
      chosenTool(random) ==
        IF settings.dodgingEnabled /\ random.dodge /\ available(bot, "dodge")
        THEN "dodge"
        ELSE IF byHeal THEN "heal"
        ELSE IF byShield /\ random.shield THEN "shield"
        ELSE IF Len(attacks) > 0 THEN attacks[1]
        ELSE availableTools[(random.pick * Len(availableTools))
                              \div Len(ToolKeys) + 1]
  IN IF Len(availableTools) = 0 THEN {NoTool}
     ELSE {TOOLS[chosenTool(random)].name : random \in Randoms}

\* takeTurn scheduling a submission whether or not one is pending
takeTurnUnlatched(thinking, pending) ==
  [isThinking |-> TRUE, timers |-> [pending EXCEPT !.decide = @ + 1]]

\* takeTurn(onComplete) up to its setTimeout: the latch and the pending
\* callbacks it leaves
takeTurn(thinking, pending) ==
  IF thinking THEN [isThinking |-> thinking, timers |-> pending]
  ELSE [isThinking |-> TRUE, timers |-> [pending EXCEPT !.decide = @ + 1]]

\* what takeTurn's callback hands to onComplete when nothing was selected
NoValidMoves == [success |-> FALSE, message |-> "Bot has no valid moves"]

\* the callback takeTurn hands to setTimeout, on match state S, from the
\* decision on: the state it leaves and the value it hands to onComplete
decide(S, decision) ==
  IF decision # NoTool THEN useTool(S, NameText(decision), FALSE)
  ELSE [state |-> S, ret |-> NoValidMoves]

\* the callback scheduling the next act() after a successful attempt only
onCompleteSuccessOnly(ret, pending) ==
  IF ret.success THEN [pending EXCEPT !.act = @ + 1] ELSE pending

\* the callback startRealTimeLoop passes to takeTurn as onComplete: onAction
\* touches the display only, and the next act() is scheduled
onComplete(ret, pending) == [pending EXCEPT !.act = @ + 1]

\* the function act of startRealTimeLoop up to its return: takeTurn is
\* called while the match is on, and nothing is done otherwise
act(S, thinking, pending) ==
  IF ~S.gameOver /\ isRealTime THEN takeTurn(thinking, pending)
  ELSE [isThinking |-> thinking, timers |-> pending]

----------------------------------------------------------------------------
(* The program: an engine and its BotAI built by startNewGame from the    *)
(* settings screen; the engine driven by useTool calls, the real-time     *)
(* interval, and reset                                                    *)

Settings == [dodgingEnabled : BOOLEAN, combatMode : {"turnbased", "realtime"}]

Init ==
  /\ now = TimeStep
  /\ settings \in Settings
  /\ isRealTime = (settings.combatMode = "realtime")
  /\ state = getInitialState
  /\ result = Undefined
  /\ isThinking = FALSE
  /\ timers = [start |-> 1, respond |-> 0, decide |-> 0, act |-> 0]

\* engine.useTool(toolInput, isPlayer)
UseTool(toolInput, isPlayer) ==
  LET out == useTool(state, toolInput, isPlayer)
  IN /\ result = Undefined
     /\ out.state.turnCount <= MaxTurns
     /\ isRealTime =>
          Cardinality(DOMAIN out.state.player.cooldowns)
            + Cardinality(DOMAIN out.state.bot.cooldowns) <= MaxUsed
     /\ state' = out.state
     /\ result' = out.ret
     /\ UNCHANGED <<settings, isRealTime, now, isThinking, timers>>

\* the interval of App fires, TimeStep after the clock was last read:
\* engine.updateRealTime().  Turn-based play starts no interval, and reads
\* the clock only for the timestamp of lastAction.
UpdateRealTime ==
  /\ result = Undefined
  /\ isRealTime
  /\ now + TimeStep <= TimeStep * (MaxTicks + 1)
  /\ now' = now + TimeStep
  /\ state' = updateRealTime(state, now')
  /\ UNCHANGED <<settings, isRealTime, result, isThinking, timers>>

\* the caller of useTool (handleSubmit, the bot's callback) has shown the
\* result and returns; callers run to completion, so nothing else runs
\* between the call and this
Return ==
  /\ result # Undefined
  /\ result' = Undefined
  /\ UNCHANGED <<state, settings, isRealTime, now, isThinking, timers>>

\* reset() keeping the winner of the match it discards
ResetKeepsWinner ==
  /\ result = Undefined
  /\ state' = [getInitialState EXCEPT !.winner = state.winner]
  /\ result' = Undefined
  /\ UNCHANGED <<settings, isRealTime, now, isThinking, timers>>

\* engine.reset()
Reset ==
  /\ result = Undefined
  /\ state' = getInitialState
  /\ result' = Undefined
  /\ UNCHANGED <<settings, isRealTime, now, isThinking, timers>>

Next ==
  \/ \E toolInput \in Inputs, isPlayer \in BOOLEAN : UseTool(toolInput, isPlayer)
  \/ UpdateRealTime
  \/ Return

Spec == Init /\ [][Next]_vars

----------------------------------------------------------------------------
(* The engine with reset(): any caller may discard the match at any time *)

NextReset ==
  \/ Next
  \/ Reset

SpecReset == Init /\ [][NextReset]_vars

----------------------------------------------------------------------------
(* The engine with its BotAI: the player submits texts, the bot acts only *)
(* through takeTurn, which any caller may call at any time                *)

\* how many tools the bot has cast in a real-time match
MaxBotUsed == 4

\* how many tools the player has cast in a real-time match against BotAI
MaxPlayerUsed == 1

\* bot.takeTurn(onComplete), onComplete touching the display only
TakeTurn ==
  LET out == takeTurn(isThinking, timers)
  IN /\ result = Undefined
     /\ isThinking' = out.isThinking
     /\ timers' = out.timers
     /\ UNCHANGED <<state, settings, isRealTime, now, result>>

\* a callback of takeTurn fires: makeDecision, useTool, the latch released,
\* the outcome handed to onComplete; a turn-based match is followed for
\* the given number of turn changes
DecideWithin(turns) ==
  /\ result = Undefined
  /\ timers.decide > 0
  /\ \E decision \in makeDecisions(state) :
       \E out \in {decide(state, decision)} :
         /\ out.state.turnCount <= turns
         /\ isRealTime => Cardinality(DOMAIN out.state.bot.cooldowns) <= MaxBotUsed
         /\ state' = out.state
         /\ result' = out.ret
  /\ isThinking' = FALSE
  /\ timers' = [timers EXCEPT !.decide = @ - 1]
  /\ UNCHANGED <<settings, isRealTime, now>>

Decide == DecideWithin(MaxTurns)

\* engine.useTool(toolInput, true): the player's submissions
PlayerUseTool(toolInput) ==
  /\ UseTool(toolInput, TRUE)
  /\ isRealTime => Cardinality(DOMAIN state'.player.cooldowns) <= MaxPlayerUsed

NextBot ==
  \/ \E toolInput \in Inputs : PlayerUseTool(toolInput)
  \/ TakeTurn
  \/ Decide
  \/ UpdateRealTime
  \/ Return

SpecBot == Init /\ [][NextBot]_vars

----------------------------------------------------------------------------
(* findTool on its own: the engine is asked to resolve typed texts *)

\* how many white-space characters a typed text carries on each side
MaxPad == 1

\* String.prototype.toUpperCase
toUpperCase(s) ==
  [i \in 1..Len(s) |->
     IF \E j \in 1..Len(LowerCase) : LowerCase[j] = s[i]
     THEN UpperCase[CHOOSE j \in 1..Len(LowerCase) : LowerCase[j] = s[i]]
     ELSE s[i]]

\* every alias of the catalog
Aliases ==
  UNION {{TOOLS[ToolKeys[k]].aliases[a] : a \in 1..Len(TOOLS[ToolKeys[k]].aliases)} :
         k \in 1..Len(ToolKeys)}

\* runs of white space of up to MaxPad characters
Pads == UNION {[1..n -> WhiteSpace] : n \in 0..MaxPad}

\* texts a caller may pass to findTool: every alias, every prefix of an
\* alias and every alias with a letter added, in lower case, in upper case
\* and capitalised, with white space around it
Texts ==
  LET words == UNION {{SubSeq(alias, 1, n) : n \in 0..Len(alias)} : alias \in Aliases}
                 \cup {alias \o <<"s">> : alias \in Aliases}
      capitalised(w) == IF w = <<>> THEN w
                        ELSE toUpperCase(SubSeq(w, 1, 1)) \o SubSeq(w, 2, Len(w))
      spellings == UNION {{w, toUpperCase(w), capitalised(w)} : w \in words}
  IN {left \o w \o right : left \in Pads, w \in spellings, right \in Pads}

\* engine.findTool(text); the caller holds the text and what came back
FindTool(text) ==
  /\ result = Undefined
  /\ result' = [input |-> text, tool |-> findTool(text)]
  /\ UNCHANGED <<state, settings, isRealTime, now, isThinking, timers>>

\* one call at a time: the next is made when the last has returned
NextFind ==
  \/ result = Undefined /\ \E text \in Texts : FindTool(text)
  \/ Return

SpecFind == Init /\ [][NextFind]_vars

----------------------------------------------------------------------------
(* The match as App runs it: the countdown ends, the player submits      *)
(* through handleSubmit, a turn-based submission schedules the bot's      *)
(* reply, and a real-time match runs the bot in startRealTimeLoop.  The   *)
(* clock stands still: the interval, which changes mana, cooldowns and    *)
(* timestamps and nothing the loop's control reads, is left to the other  *)
(* specifications                                                         *)

\* the timeout at the end of the countdown fires: the screen is "playing",
\* and a real-time match starts the bot's loop, whose first act() runs here
StartPlaying ==
  /\ result = Undefined
  /\ timers.start > 0
  /\ \E out \in {act(state, isThinking, [timers EXCEPT !.start = @ - 1])} :
       /\ isThinking' = out.isThinking
       /\ timers' = out.timers
  /\ UNCHANGED <<state, settings, isRealTime, now, result>>

\* handleSubmit with the text typed: nothing while the screen is not
\* "playing", the match is over or the text is blank; a turn-based
\* submission that hands the turn to the bot schedules its reply; a
\* turn-based match is followed for the given number of turn changes
HandleSubmitWithin(toolInput, turns) ==
  /\ result = Undefined
  /\ timers.start = 0
  /\ trim(toolInput) # <<>>
  /\ ~state.gameOver
  /\ \E out \in {useTool(state, toolInput, TRUE)} :
       /\ out.state.turnCount <= turns
       /\ isRealTime => Cardinality(DOMAIN out.state.player.cooldowns) <= MaxPlayerUsed
       /\ state' = out.state
       /\ result' = out.ret
       /\ timers' = IF out.ret.success /\ ~isRealTime /\ out.state.turn = "bot"
                       /\ ~out.state.gameOver
                    THEN [timers EXCEPT !.respond = @ + 1]
                    ELSE timers
  /\ UNCHANGED <<settings, isRealTime, now, isThinking>>

HandleSubmit(toolInput) == HandleSubmitWithin(toolInput, MaxTurns)

\* the timeout of a turn-based submission fires: bot.takeTurn(...)
Respond ==
  /\ result = Undefined
  /\ timers.respond > 0
  /\ \E out \in {takeTurn(isThinking, [timers EXCEPT !.respond = @ - 1])} :
       /\ isThinking' = out.isThinking
       /\ timers' = out.timers
  /\ UNCHANGED <<state, settings, isRealTime, now, result>>

\* the callback of a takeTurn called for a turn-based submission fires
TurnDecide ==
  /\ ~isRealTime
  /\ Decide

\* the callback of a takeTurn called by act fires: makeDecision, useTool,
\* the latch released, and onComplete schedules the next act()
LoopDecide ==
  /\ result = Undefined
  /\ isRealTime
  /\ timers.decide > 0
  /\ \E decision \in makeDecisions(state) :
       \E out \in {decide(state, decision)} :
         /\ state' = out.state
         /\ result' = out.ret
         /\ timers' = onComplete(out.ret, [timers EXCEPT !.decide = @ - 1])
  /\ isThinking' = FALSE
  /\ UNCHANGED <<settings, isRealTime, now>>

\* a timeout of the loop fires: act()
Act ==
  /\ result = Undefined
  /\ timers.act > 0
  /\ \E out \in {act(state, isThinking, [timers EXCEPT !.act = @ - 1])} :
       /\ isThinking' = out.isThinking
       /\ timers' = out.timers
  /\ UNCHANGED <<state, settings, isRealTime, now, result>>

NextLoop ==
  \/ StartPlaying
  \/ \E toolInput \in Inputs : HandleSubmit(toolInput)
  \/ Respond
  \/ TurnDecide
  \/ LoopDecide
  \/ Act
  \/ Return

\* due timeouts fire and a running handler returns, however often the
\* player submits in between
FairLoop ==
  /\ SF_vars(StartPlaying)
  /\ SF_vars(LoopDecide)
  /\ SF_vars(Act)
  /\ SF_vars(Return)

SpecLoop == Init /\ [][NextLoop]_vars /\ FairLoop

----------------------------------------------------------------------------
(* A turn-based match as App runs it, followed for longer: the player    *)
(* submits any text on any turn and the bot replies through takeTurn      *)

\* turn-based matches against the bot are followed for MaxDuelTurns turn
\* changes
MaxDuelTurns == 6

\* the countdown of a turn-based match ends
DuelStart ==
  /\ ~isRealTime
  /\ StartPlaying

\* handleSubmit in a turn-based match
DuelSubmit(toolInput) ==
  /\ ~isRealTime
  /\ HandleSubmitWithin(toolInput, MaxDuelTurns)

\* the bot's reply is due: bot.takeTurn(...)
DuelRespond ==
  /\ ~isRealTime
  /\ Respond

\* the callback of the bot's takeTurn fires
DuelDecide ==
  /\ ~isRealTime
  /\ DecideWithin(MaxDuelTurns)

NextDuel ==
  \/ DuelStart
  \/ \E toolInput \in Inputs : DuelSubmit(toolInput)
  \/ DuelRespond
  \/ DuelDecide
  \/ Return

\* a call of useTool, being synchronous, returns
FairDuel == WF_vars(Return)

SpecDuel == Init /\ [][NextDuel]_vars /\ FairDuel

----------------------------------------------------------------------------
(* The engine under a clock that runs on its own: the interval of App     *)
(* (every 100 ms, as timers go) fires at any reading of the clock, and    *)
(* callers submit between two firings                                     *)

\* milliseconds by which the clock is seen to move
ClockStep == 500

\* how many times the clock is seen to move
MaxAdvances == 2

\* how many tools are cast under the free-running clock: cooldown entries
\* of a real-time match, turns of a turn-based one
MaxCasts == 1

\* time passes
Advance ==
  /\ result = Undefined
  /\ now + ClockStep <= TimeStep + MaxAdvances * ClockStep
  /\ now' = now + ClockStep
  /\ UNCHANGED <<state, settings, isRealTime, result, isThinking, timers>>

\* the interval fires: engine.updateRealTime() reads the clock
Tick ==
  /\ result = Undefined
  /\ isRealTime
  /\ state' = updateRealTime(state, now)
  /\ UNCHANGED <<settings, isRealTime, now, result, isThinking, timers>>

\* engine.useTool(toolInput, isPlayer) between two firings
ClockUseTool(toolInput, isPlayer) ==
  /\ UseTool(toolInput, isPlayer)
  /\ IF isRealTime
     THEN Cardinality(DOMAIN state'.player.cooldowns)
            + Cardinality(DOMAIN state'.bot.cooldowns) <= MaxCasts
     ELSE state'.turnCount <= MaxCasts

NextClock ==
  \/ \E toolInput \in Inputs, isPlayer \in BOOLEAN : ClockUseTool(toolInput, isPlayer)
  \/ Advance
  \/ Tick
  \/ Return

SpecClock == Init /\ [][NextClock]_vars

----------------------------------------------------------------------------
(* Properties *)

\* a step that is a call of useTool
UseToolStep == result = Undefined /\ result' # Undefined

Entities == {"player", "bot"}

EntityInRange(e) ==
  /\ 0 <= e.hp /\ e.hp <= e.maxHp
  /\ 0 <= e.mana /\ e.mana <= e.maxMana
  /\ e.shield >= 0
  /\ \A k \in DOMAIN e.cooldowns : e.cooldowns[k] >= 0

FreshTurnBased == ~isRealTime /\ state = getInitialState /\ result = Undefined

FireballText == <<"f", "i", "r", "e", "b", "a", "l", "l">>

\* C2 as claimed: in a fresh turn-based match, when the player's
\* useTool("fireball") returns, the result is a success, bot HP is 60, player
\* mana is 70, the player's fireball cooldown is 3 and the turn is the bot's.
C2_FireballAsClaimed ==
  [][(FreshTurnBased /\ UseTool(FireballText, TRUE)) =>
       /\ result'.success
       /\ state'.bot.hp = 60
       /\ state'.player.mana = 70
       /\ cooldownOf(state'.player, "fireball") = 3 * Milli
       /\ state'.turn = "bot"]_vars

\* C2 as amended: in a fresh turn-based match, when the player's
\* useTool("fireball") returns, the result is a success, bot HP is 60, the
\* turn is the bot's, and the end-of-turn upkeep has already run: player
\* mana is 80 (70 after the cost, plus 10) and the fireball cooldown is 2.
C2_Fireball ==
  [][(FreshTurnBased /\ UseTool(FireballText, TRUE)) =>
       /\ result'.success
       /\ state'.bot.hp = 60
       /\ state'.player.mana = 80
       /\ cooldownOf(state'.player, "fireball") = 2 * Milli
       /\ state'.turn = "bot"]_vars

\* the player's fireball has just returned as the first action of a
\* turn-based match
C2_Witness ==
  /\ ~isRealTime
  /\ result # Undefined
  /\ result.success
  /\ state.turnCount = 1
  /\ state.lastAction.caster = "player"
  /\ state.lastAction.toolKey = "fireball"

\* what C3 says is frozen once the match is over
Vitals(S) ==
  [e \in Entities |-> <<S[e].hp, S[e].mana, S[e].cooldowns>>]

\* C3: once gameOver is true, no engine operation in either mode (useTool by
\* either entity, or a tick of the periodic caller) changes any entity's HP,
\* mana or cooldown values.
C3_FrozenAfterGameOver ==
  [][state.gameOver => Vitals(state') = Vitals(state)]_vars

GameIsOver == [success |-> FALSE, message |-> "Game is over"]

\* C4: whenever a successful useTool leaves an entity with HP <= 0, the same
\* call sets gameOver and makes the other entity the winner, and from then on
\* every useTool call (either entity, any text, either mode) fails with
\* "Game is over" and changes nothing.
C4_GameOver ==
  [][/\ (UseToolStep /\ result'.success) =>
          /\ state'.player.hp <= 0 => (state'.gameOver /\ state'.winner = "bot")
          /\ state'.bot.hp <= 0 => (state'.gameOver /\ state'.winner = "player")
     /\ state.gameOver => state'.gameOver
     /\ \A toolInput \in Inputs, isPlayer \in BOOLEAN :
          (state.gameOver /\ UseTool(toolInput, isPlayer)) =>
             (result' = GameIsOver /\ state' = state)]_vars

\* a call made after the match was won has been refused
C4_Witness ==
  /\ state.gameOver
  /\ state.winner = "player"
  /\ state.bot.hp <= 0
  /\ result = GameIsOver

\* C5: every useTool call that returns success = false leaves the whole match
\* state unchanged (both entities, turn, turnCount, gameOver, winner,
\* lastAction); a mistyped command does not consume the turn.
C5_FailureChangesNothing ==
  [][(UseToolStep /\ ~result'.success) => state' = state]_vars

\* the player has mistyped on the third turn of a turn-based match and still
\* holds the turn
C5_Witness ==
  /\ ~isRealTime
  /\ result = [success |-> FALSE, message |-> "Unknown tool"]
  /\ state.turnCount = 2
  /\ state.turn = "player"

Other(e) == IF e = "player" THEN "bot" ELSE "player"

NotEnoughMana == [success |-> FALSE, message |-> "Not enough mana"]

\* the text names a catalog tool that costs more mana than the caller has
Unaffordable(toolInput, isPlayer) ==
  /\ findToolOf[toolInput] # Null
  /\ findToolOf[toolInput].manaCost > state[sideOf(isPlayer)].mana

\* C6 as claimed: in every reachable state, useTool for a catalog tool whose
\* mana cost exceeds the caster's mana changes neither caster nor target and
\* returns a failure whose reason mentions mana.
C6_UnaffordableAsClaimed ==
  [][\A toolInput \in Inputs, isPlayer \in BOOLEAN :
       (Unaffordable(toolInput, isPlayer) /\ UseTool(toolInput, isPlayer)) =>
          /\ state'.player = state.player
          /\ state'.bot = state.bot
          /\ result' = NotEnoughMana]_vars

\* C6 as amended: such a call changes neither caster nor target and fails;
\* the reason is "Not enough mana" unless an earlier check of useTool
\* applies, in which case it is that check's reason: "Game is over" when the
\* match is over, else "Not your turn" when in turn-based mode the caster
\* does not hold the turn, else "Dodging is disabled" when the tool is dodge
\* and dodging is disabled.
C6_Unaffordable ==
  [][\A toolInput \in Inputs, isPlayer \in BOOLEAN :
       (Unaffordable(toolInput, isPlayer) /\ UseTool(toolInput, isPlayer)) =>
          /\ state'.player = state.player
          /\ state'.bot = state.bot
          /\ ~result'.success
          /\ result'.message =
               IF state.gameOver THEN "Game is over"
               ELSE IF ~isRealTime /\ state.turn # sideOf(isPlayer) THEN "Not your turn"
               ELSE IF findToolOf[toolInput].key = "dodge" /\ ~settings.dodgingEnabled
               THEN "Dodging is disabled"
               ELSE "Not enough mana"]_vars

\* a cast was refused for mana in a running match, by a caster left with
\* less than the cheapest attack after three casts
C6_Witness ==
  /\ result = NotEnoughMana
  /\ ~state.gameOver
  /\ \E e \in Entities : state[e].mana < 20 /\ Cardinality(DOMAIN state[e].cooldowns) = 3

NotYourTurn == [success |-> FALSE, message |-> "Not your turn"]

\* C7 as claimed: in turn-based mode, in every reachable state, a useTool
\* call for the entity that does not hold the turn fails with "Not your turn"
\* and changes nothing.
C7_NotYourTurnAsClaimed ==
  [][\A toolInput \in Inputs, isPlayer \in BOOLEAN :
       (/\ ~isRealTime
        /\ state.turn # sideOf(isPlayer)
        /\ UseTool(toolInput, isPlayer)) =>
          (result' = NotYourTurn /\ state' = state)]_vars

\* C7 as amended: in turn-based mode, in every reachable state in which the
\* match is not over, a useTool call for the entity that does not hold the
\* turn fails with "Not your turn" and changes nothing; once the match is
\* over the call fails with "Game is over" instead, also changing nothing.
C7_NotYourTurn ==
  [][\A toolInput \in Inputs, isPlayer \in BOOLEAN :
       (/\ ~isRealTime
        /\ state.turn # sideOf(isPlayer)
        /\ UseTool(toolInput, isPlayer)) =>
          /\ result' = IF state.gameOver THEN GameIsOver ELSE NotYourTurn
          /\ state' = state]_vars

\* the player has called useTool on the bot's turn and was refused
C7_Witness ==
  /\ ~isRealTime
  /\ ~state.gameOver
  /\ state.turn = "bot"
  /\ state.turnCount = 1
  /\ result = NotYourTurn

\* C8: in turn-based mode every successful useTool that does not end the
\* match flips turn to the other entity and adds exactly one to turnCount;
\* no other operation (a failed call, a call that ends the match) changes
\* turn or turnCount.
C8_TurnAdvance ==
  [][~isRealTime =>
       IF UseToolStep /\ result'.success /\ ~state'.gameOver
       THEN /\ state'.turn = Other(state.turn)
            /\ state'.turnCount = state.turnCount + 1
       ELSE /\ state'.turn = state.turn
            /\ state'.turnCount = state.turnCount]_vars

\* the bot's successful action has just returned, handing the turn back to
\* the player as the second turn change
C8_Witness ==
  /\ ~isRealTime
  /\ result # Undefined
  /\ result.success
  /\ state.lastAction.caster = "bot"
  /\ state.turn = "player"
  /\ state.turnCount = 2

\* the entity whose successful action is due: the player first, then the
\* opponent of whoever acted last
DueToAct == IF state.lastAction = Null THEN "player" ELSE Other(state.lastAction.caster)

\* C9 as claimed: in turn-based mode successful actions alternate between
\* player and bot, starting with the player: after an entity's successful
\* action every further useTool call by that entity fails with "Not your
\* turn" until the opponent has completed a successful action.
C9_AlternationAsClaimed ==
  [][~isRealTime =>
       /\ (UseToolStep /\ result'.success) => state'.lastAction.caster = DueToAct
       /\ \A toolInput \in Inputs, isPlayer \in BOOLEAN :
            (sideOf(isPlayer) # DueToAct /\ UseTool(toolInput, isPlayer)) =>
               result' = NotYourTurn]_vars

\* C9 as amended: in turn-based mode successful actions alternate between
\* player and bot, starting with the player: after an entity's successful
\* action every further useTool call by that entity fails until the opponent
\* has completed a successful action, with "Not your turn" while the match
\* is not over and with "Game is over" once the action has ended the match.
C9_Alternation ==
  [][~isRealTime =>
       /\ (UseToolStep /\ result'.success) => state'.lastAction.caster = DueToAct
       /\ \A toolInput \in Inputs, isPlayer \in BOOLEAN :
            (sideOf(isPlayer) # DueToAct /\ UseTool(toolInput, isPlayer)) =>
               result' = IF state.gameOver THEN GameIsOver ELSE NotYourTurn]_vars

\* the bot, having acted on the second turn, has called again before the
\* player acted and was refused
C9_Witness ==
  /\ ~isRealTime
  /\ state.lastAction # Null
  /\ state.lastAction.caster = "bot"
  /\ state.turnCount = 2
  /\ result = NotYourTurn

\* result record i is a damage effect
IsDamage(results, i) == results[i].type = "damage"

\* C10: in turn-based mode with dodging enabled, after an entity has
\* successfully cast dodge, the opponent's next damage effect against it is
\* nullified: no HP and no shield is lost and the effect is reported as
\* dodged.  (The last successful action is the dodge, so a successful action
\* now is the opponent's, and a damage effect in it is the opponent's next.)
C10_DodgeNullifiesNext ==
  [][(/\ ~isRealTime
      /\ settings.dodgingEnabled
      /\ state.lastAction # Null
      /\ state.lastAction.toolKey = "dodge"
      /\ UseToolStep
      /\ result'.success
      /\ \E i \in 1..Len(result'.results) : IsDamage(result'.results, i)) =>
        LET dodger == state.lastAction.caster
            first == CHOOSE i \in 1..Len(result'.results) :
                       /\ IsDamage(result'.results, i)
                       /\ \A j \in 1..(i - 1) : ~IsDamage(result'.results, j)
        IN /\ result'.results[first] = [type |-> "damage", value |-> 0, dodged |-> TRUE]
           /\ state'[dodger].hp = state[dodger].hp
           /\ state'[dodger].shield = state[dodger].shield]_vars

\* the damage effects of the catalog
DamageEffects ==
  {effect \in UNION {{TOOLS[ToolKeys[k]].effects[i] :
                        i \in 1..Len(TOOLS[ToolKeys[k]].effects)} :
                     k \in 1..Len(ToolKeys)} : effect.type = "damage"}

\* C11 as stated: a damage effect applied to a target whose dodge flag is
\* set yields a result with final = 0 and dodged = true, leaves the target's
\* HP and shield as they were and leaves its dodge flag false.
C11_DodgedAsClaimed ==
  \A e \in Entities : state[e].isDodging =>
    \A effect \in DamageEffects :
      LET r == applyEffect(effect, state[Other(e)], state[e])
      IN /\ "final" \in DOMAIN r.result
         /\ r.result.final = 0
         /\ r.result.dodged
         /\ r.target.hp = state[e].hp
         /\ r.target.shield = state[e].shield
         /\ ~r.target.isDodging

\* C11: a damage effect applied to a target whose dodge flag is set yields
\* the result {type: "damage", value: 0, dodged: true}, which has no final
\* field; the target's HP and shield are as they were and its dodge flag is
\* false afterwards.
C11_Dodged ==
  \A e \in Entities : state[e].isDodging =>
    \A effect \in DamageEffects :
      LET r == applyEffect(effect, state[Other(e)], state[e])
      IN /\ r.result = [type |-> "damage", value |-> 0, dodged |-> TRUE]
         /\ r.target.hp = state[e].hp
         /\ r.target.shield = state[e].shield
         /\ ~r.target.isDodging

\* a tool has just been cast at an entity that had its dodge flag set: its
\* damage was dodged and the flag is down
C11_Witness ==
  /\ state.lastAction # Null
  /\ \E i \in 1..Len(state.lastAction.results) :
       state.lastAction.results[i] = [type |-> "damage", value |-> 0, dodged |-> TRUE]
  /\ ~state[Other(state.lastAction.caster)].isDodging
  /\ state[Other(state.lastAction.caster)].hp = 100

\* a step that is a firing of the real-time interval
TickStep == now' # now

\* C12: in real-time mode a dodge flag never survives a tick: after
\* updateRealTime has run, no entity's dodge flag is set.
C12_DodgeClearedByTick ==
  [][(isRealTime /\ TickStep) =>
       \A e \in Entities : ~state'[e].isDodging]_vars

\* a damage effect of the given amount
Damage(amount) == [type |-> "damage", value |-> amount]

\* C13: a non-dodged damage of amount a against shield s takes min(s, a)
\* from the shield and only the remainder from HP (which stops at 0); so an
\* entity with shield 30 and HP h > 20 has shield 5 and HP h after a damage
\* of 25, and shield 0 and HP h - 20 after a second one.
C13_ShieldAbsorbs ==
  \A e \in Entities : ~state[e].isDodging =>
    /\ \A effect \in DamageEffects :
         LET r == applyEffect(effect, state[Other(e)], state[e])
             absorbed == Min(state[e].shield, effect.value)
         IN /\ r.target.shield = state[e].shield - absorbed
            /\ r.target.hp = Max(0, state[e].hp - (effect.value - absorbed))
    /\ (state[e].shield = 30 /\ state[e].hp > 20) =>
         LET first == applyEffect(Damage(25), state[Other(e)], state[e])
             second == applyEffect(Damage(25), first.caster, first.target)
         IN /\ first.target.shield = 5
            /\ first.target.hp = state[e].hp
            /\ second.target.shield = 0
            /\ second.target.hp = state[e].hp - 20

\* the player raised a shield of 30 and the bot's Ice Ball (damage 25) has
\* hit it twice: the second one took the last 5 of the shield and 20 HP
C13_Witness ==
  /\ state.lastAction # Null
  /\ state.lastAction.caster = "bot"
  /\ state.lastAction.results[1] =
       [type |-> "damage", value |-> 25, absorbed |-> 5, final |-> 20]
  /\ state.player.shield = 0
  /\ state.player.hp = 80

\* the keys canUseTool is asked about: the catalog's, and one not in it
AskedKeys == {ToolKeys[k] : k \in 1..Len(ToolKeys)} \cup {"meteor"}

\* the four checks of canUseTool that entity fails for toolKey
Missing(toolKey) == toolKey \notin DOMAIN TOOLS
DodgeDisabled(toolKey) == toolKey = "dodge" /\ ~settings.dodgingEnabled
Poor(entity, toolKey) == ~Missing(toolKey) /\ entity.mana < TOOLS[toolKey].manaCost
Cooling(entity, toolKey) == cooldownOf(entity, toolKey) > 0

\* C14: canUseTool yields a verdict only, and reports the first failing
\* check in the order tool missing, dodge while dodging is disabled,
\* insufficient mana, cooldown above 0 (so unaffordable and on cooldown is
\* rejected for the mana); it yields valid exactly when all four pass.
\* (Asked about either entity and any key, once the caller before it has
\* returned.)
C14_CheckOrder ==
  result = Undefined =>
  \A e \in Entities, toolKey \in AskedKeys :
    LET entity == state[e]
        canUse == canUseTool(entity, toolKey)
    IN /\ canUse.valid = ~(\/ Missing(toolKey) \/ DodgeDisabled(toolKey)
                           \/ Poor(entity, toolKey) \/ Cooling(entity, toolKey))
       /\ DOMAIN canUse = IF canUse.valid THEN {"valid"} ELSE {"valid", "reason"}
       /\ ~canUse.valid =>
            IF Missing(toolKey) THEN canUse.reason = "Tool not found"
            ELSE IF DodgeDisabled(toolKey) THEN canUse.reason = "Dodging is disabled"
            ELSE IF Poor(entity, toolKey) THEN canUse.reason = "Not enough mana"
            ELSE canUse.reason \notin {"Tool not found", "Dodging is disabled",
                                       "Not enough mana"}

\* an entity holds a tool that is both on cooldown and unaffordable, and a
\* cast has just been rejected for the mana
C14_Witness ==
  /\ result = NotEnoughMana
  /\ \E e \in Entities, toolKey \in AskedKeys :
       /\ Poor(state[e], toolKey)
       /\ Cooling(state[e], toolKey)
       /\ canUseTool(state[e], toolKey).reason = "Not enough mana"

UnknownTool == [success |-> FALSE, message |-> "Unknown tool"]

\* C15: useTool returns the reason of the first failure condition that
\* applies, in the order game over, wrong turn (turn-based only), unknown
\* tool, canUseTool; so an unknown name submitted out of turn yields "Not
\* your turn" and any call in a terminal match yields "Game is over".  The
\* call succeeds when none applies.  (Of every call made once the caller
\* before has returned, by either side and with any text.)
C15_FailureOrder ==
  result = Undefined =>
  \A toolInput \in Inputs, isPlayer \in BOOLEAN :
    LET ret == useTool(state, toolInput, isPlayer).ret
        tool == findToolOf[toolInput]
    IN IF state.gameOver THEN ret = GameIsOver
       ELSE IF ~isRealTime /\ state.turn # sideOf(isPlayer) THEN ret = NotYourTurn
       ELSE IF tool = Null THEN ret = UnknownTool
       ELSE LET canUse == canUseTool(state[sideOf(isPlayer)], tool.key)
            IN IF canUse.valid THEN ret.success
               ELSE ret = [success |-> FALSE, message |-> canUse.reason]

\* a call made out of turn has just been rejected, in a state where an
\* unknown name submitted out of turn is rejected for the turn as well
C15_Witness ==
  /\ ~isRealTime
  /\ ~state.gameOver
  /\ state.turn = "player"
  /\ result = NotYourTurn
  /\ \E toolInput \in Inputs :
       /\ findToolOf[toolInput] = Null
       /\ useTool(state, toolInput, FALSE).ret = NotYourTurn

\* character c is letter l of an alias, in either case
SameLetter(c, l) ==
  c = l \/ \E j \in 1..Len(UpperCase) : UpperCase[j] = c /\ LowerCase[j] = l

\* typed is alias in some mix of cases with white space around it, that is,
\* typed trimmed and lower-cased is alias
TypedAs(typed, alias) ==
  \E lo \in 1..(Len(typed) + 1) :
    LET hi == lo + Len(alias) - 1
    IN /\ hi <= Len(typed)
       /\ \A i \in 1..Len(typed) :
            IF i < lo \/ i > hi THEN typed[i] \in WhiteSpace
            ELSE SameLetter(typed[i], alias[i - lo + 1])

AliasesOf(key) == {TOOLS[key].aliases[a] : a \in 1..Len(TOOLS[key].aliases)}

Keys == {ToolKeys[k] : k \in 1..Len(ToolKeys)}

\* a findTool call has returned
Found == "input" \in DOMAIN result

\* C16: findTool(text) returns tool T exactly when text, trimmed and
\* lower-cased, is one of T's aliases, and null when it is no tool's alias
\* (a proper prefix of an alias that is no alias itself included); and no
\* alias of the catalog belongs to two tools.
C16_FindTool ==
  /\ \A k1 \in Keys, k2 \in Keys : k1 # k2 => AliasesOf(k1) \cap AliasesOf(k2) = {}
  /\ Found =>
       /\ \A key \in Keys :
            (result.tool = [key |-> key] @@ TOOLS[key])
              <=> \E alias \in AliasesOf(key) : TypedAs(result.input, alias)
       /\ result.tool = Null
            <=> \A alias \in Aliases : ~TypedAs(result.input, alias)

\* findTool was given " FIRE" with white space around it and found
\* fireball; the same holds of the text "fir", which it does not resolve
C16_Witness ==
  /\ Found
  /\ result.input = <<" ", "F", "I", "R", "E", "\t">>
  /\ result.tool # Null
  /\ result.tool.key = "fireball"
  /\ findTool(<<"f", "i", "r">>) = Null

\* every field of the match has the value a fresh match starts with
FreshMatch ==
  /\ \A e \in Entities :
       /\ state[e].hp = 100
       /\ state[e].mana = 100
       /\ state[e].shield = 0
       /\ DOMAIN state[e].cooldowns = {}
       /\ ~state[e].isDodging
  /\ state.turn = "player"
  /\ state.turnCount = 0
  /\ ~state.gameOver
  /\ state.winner = "null"

\* C17: once gameOver is true, no useTool call by either side (the bot's
\* timer callbacks make such calls) and no tick changes gameOver or winner;
\* only reset() leaves the terminal state, and after reset() every field has
\* its fresh-match value.
C17_TerminalAbsorbing ==
  [][/\ (state.gameOver /\ ~Reset) =>
          (state'.gameOver /\ state'.winner = state.winner)
     /\ Reset => FreshMatch']_vars

\* a real-time match was reset after a tick: the match is fresh, stamped
\* with the time of the reset
C17_Witness ==
  /\ isRealTime
  /\ now > TimeStep
  /\ FreshMatch
  /\ state = getInitialState

\* the catalog keys that pass canUseTool for the bot
Usable == {key \in Keys : canUseTool(state.bot, key).valid}

\* C18: when takeTurn's callback runs while the match is not over and, in
\* turn-based mode, the turn is the bot's, and makeDecision selects a tool,
\* then the useTool call made with the selection succeeds: the selection is
\* the display name of a tool that passes canUseTool in this very state, and
\* findTool resolves each display name to its own catalog key.
C18_BotSubmitsValid ==
  /\ \A key \in Keys : findToolOf[NameText(TOOLS[key].name)].key = key
  /\ (~state.gameOver /\ (isRealTime \/ state.turn = "bot")) =>
       \A decision \in makeDecisions(state) :
         LET out == decide(state, decision)
         IN decision # NoTool =>
              /\ \E key \in Usable : TOOLS[key].name = decision
              /\ out.ret.success
              /\ out.ret.tool = decision

\* the bot's callback has just run and its submission went through
C18_Witness ==
  /\ result # Undefined
  /\ result.success
  /\ state.lastAction.caster = "bot"
  /\ ~isThinking
  /\ timers.decide = 0

\* C19: makeDecision returns no selection if and only if no catalog tool
\* passes canUseTool for the bot, and otherwise returns (the display name
\* of) a tool that passes.
C19_DecisionUsable ==
  \A decision \in makeDecisions(state) :
    /\ (decision = NoTool) <=> (Usable = {})
    /\ decision # NoTool => \E key \in Usable : TOOLS[key].name = decision

\* the bot's callback has just run in a state where the bot can use no
\* tool, and made no selection
C19_Witness ==
  /\ result = NoValidMoves
  /\ Usable = {}
  /\ ~state.gameOver

\* C20: at most one submission scheduled by takeTurn is pending, and
\* isThinking is true exactly while one is: a takeTurn call made meanwhile
\* schedules nothing, and the callback releases the latch when it runs.
C20_OnePending ==
  /\ timers.decide <= 1
  /\ isThinking <=> timers.decide = 1

\* the bot has acted once and takeTurn was called again: a submission is
\* pending, and calls of takeTurn made now leave it the only one
C20_Witness ==
  /\ isThinking
  /\ timers.decide = 1
  /\ result = Undefined
  /\ state.lastAction # Null
  /\ state.lastAction.caster = "bot"
  /\ takeTurn(isThinking, timers).timers = timers

\* the texts that resolve to the dodge tool
DodgeInputs == {toolInput \in Inputs : findToolOf[toolInput] # Null
                                        /\ findToolOf[toolInput].key = "dodge"}

\* some effect result of the list reports a dodged damage
AnyDodged(results) ==
  \E i \in 1..Len(results) :
    "dodged" \in DOMAIN results[i] /\ results[i].dodged

DodgingIsDisabled == [success |-> FALSE, message |-> "Dodging is disabled"]

\* C22: when dodging is disabled in the settings, no useTool call for dodge
\* by either entity succeeds, the bot never selects Dodge, both entities'
\* dodge flags are false in every reachable state, and no damage effect is
\* reported as dodged.
C22_DodgeDisabled ==
  ~settings.dodgingEnabled =>
    /\ \A e \in Entities : ~state[e].isDodging
    /\ state.lastAction # Null =>
         /\ state.lastAction.toolKey # "dodge"
         /\ ~AnyDodged(state.lastAction.results)
    /\ (result # Undefined /\ result.success) =>
         /\ result.tool # TOOLS["dodge"].name
         /\ ~AnyDodged(result.results)
    /\ result = Undefined =>
         /\ \A toolInput \in DodgeInputs, isPlayer \in BOOLEAN :
              ~useTool(state, toolInput, isPlayer).ret.success
         /\ TOOLS["dodge"].name \notin makeDecisions(state)

\* dodging is disabled, damage has been dealt, and a submission of Dodge
\* has just been turned down for the setting
C22_Witness ==
  /\ ~settings.dodgingEnabled
  /\ result = DodgingIsDisabled
  /\ state.lastAction # Null
  /\ \E i \in 1..Len(state.lastAction.results) :
       state.lastAction.results[i].type = "damage"

\* the catalog entry as findTool hands it out: { key, ...tool }
ToolOf(key) == [k \in {"key"} \cup DOMAIN TOOLS[key] |->
                  IF k = "key" THEN key ELSE TOOLS[key][k]]

\* the two entities as the action recorded in lastAction left them when its
\* effects had been applied: the caster has paid, the effects have run, and
\* nothing else has
AfterEffects(S, action) ==
  LET done == applyEffects(TOOLS[action.toolKey].effects, 1,
                           payCost(S[action.caster], ToolOf(action.toolKey)),
                           S[Other(action.caster)], <<>>)
  IN [e \in Entities |-> IF e = action.caster THEN done.caster ELSE done.target]

\* C24: in turn-based mode the upkeep run after a successful action that
\* does not end the match applies to both entities: every cooldown entry
\* becomes max(0, previous - 1), mana becomes min(maxMana, mana + 10) and
\* the dodge flag becomes false; HP and shield are as the action's effects
\* left them.
C24_Upkeep ==
  [][(UseToolStep /\ ~isRealTime /\ result'.success /\ ~state'.gameOver) =>
       LET before == AfterEffects(state, state'.lastAction)
       IN \A e \in Entities :
            /\ DOMAIN state'[e].cooldowns = DOMAIN before[e].cooldowns
            /\ \A k \in DOMAIN before[e].cooldowns :
                 state'[e].cooldowns[k] = Max(0, before[e].cooldowns[k] - 1 * Milli)
            /\ state'[e].mana = Min(before[e].maxMana, before[e].mana + 10)
            /\ ~state'[e].isDodging
            /\ state'[e].hp = before[e].hp
            /\ state'[e].shield = before[e].shield]_vars

\* a turn-based action other than Strike has just succeeded on the third
\* turn or later: the upkeep after it took the caster's new cooldown down
\* by one, held an entry of 0 at 0, and held the target's full mana at the
\* maximum
C24_Witness ==
  /\ ~isRealTime
  /\ result # Undefined
  /\ result.success
  /\ ~state.gameOver
  /\ state.turnCount >= 3
  /\ LET action == state.lastAction
     IN /\ state[action.caster].cooldowns[action.toolKey]
             = (TOOLS[action.toolKey].cooldown - 1) * Milli
        /\ state[action.caster].cooldowns[action.toolKey] > 0
        /\ \E k \in DOMAIN state[action.caster].cooldowns :
             state[action.caster].cooldowns[k] = 0
        /\ state[Other(action.caster)].mana = 100
        /\ state[action.caster].mana < 100

\* C25: for every non-dodged damage effect, the effect result records the
\* requested amount, the amount absorbed by the shield, and a final value
\* equal to the actual decrease of the target's HP caused by the effect,
\* also when the target has no shield and when HP stops at 0.
C25_FinalIsHpDelta ==
  \A e \in Entities : ~state[e].isDodging =>
    \A effect \in DamageEffects :
      LET r == applyEffect(effect, state[Other(e)], state[e])
      IN /\ r.result.value = effect.value
         /\ "absorbed" \in DOMAIN r.result
         /\ r.result.absorbed = Min(state[e].shield, effect.value)
         /\ "final" \in DOMAIN r.result
         /\ r.result.final = state[e].hp - r.target.hp

\* C25, for a shielded target alone, whose result does carry a final field:
\* that field is the actual decrease of the target's HP.
C25_ShieldedFinalIsHpDelta ==
  \A e \in Entities : (~state[e].isDodging /\ state[e].shield > 0) =>
    \A effect \in DamageEffects :
      LET r == applyEffect(effect, state[Other(e)], state[e])
      IN r.result.final = state[e].hp - r.target.hp

\* a step in which the bot's callback runs
DecideStep == timers'.decide < timers.decide

\* the results of applying the effects one after the other, in declared
\* order, each to what the one before left
RECURSIVE InOrder(_, _, _, _)
InOrder(effects, i, caster, target) ==
  IF i > Len(effects) THEN <<>>
  ELSE LET r == applyEffect(effects[i], caster, target)
       IN <<r.result>> \o InOrder(effects, i + 1, r.caster, r.target)

\* C26: a successful useTool applies every effect of the tool in declared
\* order; it returns, and records in lastAction together with the acting
\* side and the tool, exactly one effect result per effect in that order
\* (Ice Ball yields [damage, slow]); and termination is evaluated on the
\* entities as all the effects left them.
C26_EffectsInOrder ==
  [][(UseToolStep /\ result'.success) =>
       LET action == state'.lastAction
           tool == ToolOf(action.toolKey)
           side == IF DecideStep THEN "bot" ELSE "player"
           after == AfterEffects(state, action)
       IN /\ action.caster = side
          /\ action.tool = tool.name
          /\ result'.tool = tool.name
          /\ action.results = result'.results
          /\ Len(action.results) = Len(tool.effects)
          /\ \A i \in 1..Len(tool.effects) : action.results[i].type = tool.effects[i].type
          /\ action.results = InOrder(tool.effects, 1, payCost(state[side], tool),
                                   state[Other(side)])
          /\ action.toolKey = "iceball" =>
               /\ action.results[1].type = "damage"
               /\ action.results[2] = [type |-> "slow", duration |-> 1]
          /\ state'.gameOver <=> (after["player"].hp <= 0 \/ after["bot"].hp <= 0)
          /\ isRealTime => \A e \in Entities : state'[e] = after[e]]_vars

\* the bot's Ice Ball has just taken the player's last HP: both its results
\* are recorded and the match is over
C26_Witness ==
  /\ result # Undefined
  /\ result.success
  /\ result.tool = "Ice Ball"
  /\ Len(result.results) = 2
  /\ state.lastAction.caster = "bot"
  /\ state.lastAction.results = result.results
  /\ state.gameOver
  /\ state.player.hp = 0

\* the heal effects of the catalog
HealEffects ==
  {effect \in UNION {{TOOLS[ToolKeys[k]].effects[i] :
                        i \in 1..Len(TOOLS[ToolKeys[k]].effects)} :
                     k \in 1..Len(ToolKeys)} : effect.type = "heal"}

\* C27: a heal effect raises only the caster's HP, to min(maxHp, hp +
\* amount), and its result records the amount actually healed, min(amount,
\* maxHp - hp), which is 0 when the caster is already at full HP.
C27_Heal ==
  \A e \in Entities, effect \in HealEffects :
    LET r == applyEffect(effect, state[e], state[Other(e)])
    IN /\ r.caster = [state[e] EXCEPT !.hp = Min(state[e].maxHp, @ + effect.value)]
       /\ r.target = state[Other(e)]
       /\ r.result = [type |-> "heal",
                      value |-> Min(effect.value, state[e].maxHp - state[e].hp)]
       /\ r.result.value = r.caster.hp - state[e].hp
       /\ state[e].hp = state[e].maxHp => r.result.value = 0

\* the player, unhurt, has just cast Heal: 0 healed; the bot, down 15 HP,
\* would be healed by 15 of the 35
C27_Witness ==
  /\ result # Undefined
  /\ result.success
  /\ result.results = <<[type |-> "heal", value |-> 0]>>
  /\ state.lastAction.caster = "player"
  /\ state.player.hp = 100
  /\ state.bot.hp = 85
  /\ \A effect \in HealEffects :
       applyEffect(effect, state.bot, state.player).result.value = 15

\* the slow effects of the catalog
SlowEffects ==
  {effect \in UNION {{TOOLS[ToolKeys[k]].effects[i] :
                        i \in 1..Len(TOOLS[ToolKeys[k]].effects)} :
                     k \in 1..Len(ToolKeys)} : effect.type = "slow"}

\* C28: the slow effect is inert: applying it changes no field of caster or
\* target, so nothing is left behind that a later cooldown decrement or mana
\* regeneration could read; and a cast of Ice Ball leaves both entities
\* exactly as its cost and its damage effect alone (followed, in turn-based
\* mode, by the upkeep) would.
C28_SlowInert ==
  [][/\ \A e \in Entities, effect \in SlowEffects :
          LET r == applyEffect(effect, state[e], state[Other(e)])
          IN r.caster = state[e] /\ r.target = state[Other(e)]
     /\ (UseToolStep /\ result'.success /\ state'.lastAction.toolKey = "iceball") =>
          LET side == state'.lastAction.caster
              tool == ToolOf("iceball")
              hit == applyEffect(tool.effects[1], payCost(state[side], tool),
                                 state[Other(side)])
              kept(entity) == IF ~isRealTime /\ ~state'.gameOver
                              THEN endTurnEntity(entity) ELSE entity
          IN /\ tool.effects[1].type = "damage"
             /\ state'[side] = kept(hit.caster)
             /\ state'[Other(side)] = kept(hit.target)
             /\ result'.results[2] = [type |-> "slow", duration |-> 1]]_vars

\* Ice Ball has just been cast in a turn-based match and hit: its slow
\* result is recorded, and neither entity carries a status effect
C28_Witness ==
  /\ ~isRealTime
  /\ result # Undefined
  /\ result.success
  /\ result.tool = "Ice Ball"
  /\ result.results = <<[type |-> "damage", value |-> 25],
                        [type |-> "slow", duration |-> 1]>>
  /\ state.player.statusEffects = <<>>
  /\ state.bot.statusEffects = <<>>
  /\ state.bot.hp = 75

\* C29: in turn-based mode an action that ends the match runs no upkeep and
\* does not advance the turn: after it, turn and turnCount are as before the
\* action, the caster's mana is the mana before less the tool's cost, and
\* the caster's cooldown for the tool is the full catalog value.
C29_TerminalNoUpkeep ==
  [][(UseToolStep /\ ~isRealTime /\ result'.success /\ state'.gameOver) =>
       LET action == state'.lastAction
           tool == TOOLS[action.toolKey]
       IN /\ state'.turn = state.turn
          /\ state'.turnCount = state.turnCount
          /\ action.caster = state.turn
          /\ state'[action.caster].mana = state[action.caster].mana - tool.manaCost
          /\ state'[action.caster].cooldowns[action.toolKey] = tool.cooldown * Milli
          /\ \A e \in Entities : state'[e] = AfterEffects(state, action)[e]]_vars

\* the player's third attack of a turn-based match has just taken the bot's
\* last HP: it is still the player's turn, the fourth, and the tool's
\* cooldown has not been touched
C29_Witness ==
  /\ ~isRealTime
  /\ result # Undefined
  /\ result.success
  /\ state.gameOver
  /\ state.winner = "player"
  /\ state.turn = "player"
  /\ state.turnCount = 4
  /\ state.lastAction.caster = "player"
  /\ state.player.cooldowns[state.lastAction.toolKey]
       = TOOLS[state.lastAction.toolKey].cooldown * Milli
  /\ state.player.mana < 100

\* a step that is a firing of the interval under the free-running clock
ClockTick == result = Undefined /\ result' = Undefined /\ now' = now

\* C30: on each updateRealTime tick at time now, for each entity: mana
\* becomes min(maxMana, mana + 10) and the regen timestamp becomes now if
\* and only if now - lastManaRegen >= 1000 ms, and otherwise both are as
\* they were; and every positive cooldown becomes max(0, cooldown - (now -
\* time of the previous tick)/1000), with no decrement on the first tick.
\* (The time of the previous tick is what lastCooldownUpdate holds: a tick
\* sets it to its own clock reading and nothing else touches it.)
C30_Tick ==
  [][\A e \in Entities :
       LET old == state[e]
           new == state'[e]
           regen == now - old.lastManaRegen >= 1000
           first == old.lastCooldownUpdate = 0
       IN IF ClockTick
          THEN /\ new.mana = IF regen THEN Min(old.maxMana, old.mana + 10) ELSE old.mana
               /\ new.lastManaRegen = IF regen THEN now ELSE old.lastManaRegen
               /\ DOMAIN new.cooldowns = DOMAIN old.cooldowns
               /\ \A k \in DOMAIN old.cooldowns :
                    new.cooldowns[k] =
                      IF old.cooldowns[k] > 0 /\ ~first
                      THEN Max(0, old.cooldowns[k] - (now - old.lastCooldownUpdate))
                      ELSE old.cooldowns[k]
               /\ new.lastCooldownUpdate = now
               /\ new.hp = old.hp /\ new.shield = old.shield
               /\ new.isDodging = old.isDodging
          ELSE new.lastCooldownUpdate = old.lastCooldownUpdate]_vars

\* a tool was cast at full mana, and a tick, not the first, has just
\* regenerated the caster's mana and taken time off the tool's cooldown,
\* while an earlier tick, less than a second after the match began, had
\* regenerated nothing
C30_Witness ==
  /\ isRealTime
  /\ result = Undefined
  /\ now > TimeStep
  /\ \E e \in Entities :
       /\ state[e].lastManaRegen = now
       /\ state[e].lastCooldownUpdate = now
       /\ \E k \in DOMAIN state[e].cooldowns :
            /\ state[e].cooldowns[k] > 0
            /\ state[e].cooldowns[k] < TOOLS[k].cooldown * Milli
            /\ state[e].mana = 100 - TOOLS[k].manaCost + 10

\* a match state without the timestamp of its last action
Unstamped(S) ==
  IF S.lastAction = Null THEN S
  ELSE [S EXCEPT !.lastAction = [k \in DOMAIN @ \ {"timestamp"} |-> @[k]]]

C32_NoTurnGating ==
  isRealTime =>
    /\ state.turn = getInitialState.turn
    /\ state.turnCount = getInitialState.turnCount
    /\ result # NotYourTurn
    /\ result = Undefined =>
         \A toolInput \in Inputs, isPlayer \in BOOLEAN :
           \A ret \in {useTool(state, toolInput, isPlayer).ret} :
             /\ ret # NotYourTurn
             /\ ret.success <=>
                  /\ ~state.gameOver
                  /\ findToolOf[toolInput] # Null
                  /\ canUseTool(state[sideOf(isPlayer)],
                                findToolOf[toolInput].key).valid

\* in a real-time match the bot has just completed its second action in a
\* row, the player not having acted at all, and it is still turn 0 of the
\* player
C32_Witness ==
  /\ isRealTime
  /\ result # Undefined
  /\ result.success
  /\ state.lastAction.caster = "bot"
  /\ Cardinality(DOMAIN state.bot.cooldowns) = 2
  /\ DOMAIN state.player.cooldowns = {}
  /\ state.turn = "player"
  /\ state.turnCount = 0

\* the reason canUseTool gives for a tool of entity that is on cooldown
CooldownReason(entity, toolKey) ==
  "Cooldown: " \o NumberToString(cooldownOf(entity, toolKey))
    \o (IF isRealTime THEN "s" ELSE " turns")

\* C31: in real-time mode, after an entity successfully casts a tool with
\* catalog cooldown c at time t, every useTool call by that entity for the
\* same tool before time t + c seconds fails with a cooldown reason, for
\* every schedule of updateRealTime ticks interleaved with the casts.
C31_CooldownBlocks ==
  (isRealTime /\ result = Undefined /\ state.lastAction # Null) =>
    \A cast \in {state.lastAction} :
      now < cast.timestamp + TOOLS[cast.toolKey].cooldown * Milli =>
        \A toolInput \in Inputs :
          (findToolOf[toolInput] # Null
            /\ findToolOf[toolInput].key = cast.toolKey) =>
            \A ret \in {useTool(state, toolInput, cast.caster = "player").ret} :
              /\ ~ret.success
              /\ ret.message = CooldownReason(state[cast.caster], cast.toolKey)

\* C33 as claimed: with dodging disabled, whenever the bot's HP is below 40
\* and the bot has mana for heal (at least 25), makeDecision selects heal.
C33_HealAsClaimed ==
  (~settings.dodgingEnabled /\ state.bot.hp < 40 /\ state.bot.mana >= 25) =>
    makeDecisions(state) = {TOOLS["heal"].name}

\* C33: with dodging disabled, whenever the bot's HP is below 40, the bot
\* has mana for heal (at least 25) and heal is not on cooldown for the bot,
\* makeDecision selects heal.
C33_Heal ==
  (/\ ~settings.dodgingEnabled
   /\ state.bot.hp < 40
   /\ state.bot.mana >= 25
   /\ ~Cooling(state.bot, "heal")) =>
    makeDecisions(state) = {TOOLS["heal"].name}

\* dodging is disabled and the bot, below 40 HP, has just healed itself
C33_Witness ==
  /\ ~settings.dodgingEnabled
  /\ state.lastAction # Null
  /\ state.lastAction.caster = "bot"
  /\ state.lastAction.toolKey = "heal"
  /\ result = Undefined

\* the place of key in the catalog
CatalogPlace(key) == CHOOSE i \in 1..Len(ToolKeys) : ToolKeys[i] = key

\* the attack tools of the catalog that canUseTool accepts for bot
UsableAttacks(bot) ==
  {key \in DOMAIN TOOLS : TOOLS[key].type = "attack" /\ canUseTool(bot, key).valid}

\* the usable attacks that no other usable attack beats: none has a first
\* damage effect of greater value, nor one of the same value and an earlier
\* place in the catalog
Strongest(bot) ==
  {key \in UsableAttacks(bot) :
     \A other \in UsableAttacks(bot) :
       \/ damageOf(key) > damageOf(other)
       \/ damageOf(key) = damageOf(other)
            /\ CatalogPlace(key) <= CatalogPlace(other)}

\* the attack the claim's example names: Lightning when usable, else
\* Fireball, else Ice Ball, else Strike
ExampleAttack(bot) ==
  IF "lightning" \in UsableAttacks(bot) THEN "lightning"
  ELSE IF "fireball" \in UsableAttacks(bot) THEN "fireball"
  ELSE IF "iceball" \in UsableAttacks(bot) THEN "iceball"
  ELSE "strike"

\* C34: whenever none of the dodge, heal and shield rules selects a tool
\* and at least one attack tool is usable by the bot, makeDecision returns
\* the usable attack whose first damage effect has the greatest value, ties
\* going to the tool earlier in the catalog (Lightning when usable, else
\* Fireball, else Ice Ball, else Strike): the only tools makeDecision may
\* return are Dodge, Heal, Shield and that attack, and it does return that
\* attack for some draws unless the heal rule applies.
C34_StrongestAttack ==
  UsableAttacks(state.bot) # {} =>
    \A decisions \in {makeDecisions(state)} :
      /\ Strongest(state.bot) = {ExampleAttack(state.bot)}
      /\ decisions \subseteq
           {TOOLS[key].name :
              key \in {"dodge", "heal", "shield", ExampleAttack(state.bot)}}
      /\ TOOLS["dodge"].name \in decisions =>
           settings.dodgingEnabled /\ canUseTool(state.bot, "dodge").valid
      /\ TOOLS["heal"].name \in decisions =>
           state.bot.hp < 40 /\ canUseTool(state.bot, "heal").valid
      /\ TOOLS["shield"].name \in decisions =>
           state.bot.shield = 0 /\ canUseTool(state.bot, "shield").valid
      /\ ~(state.bot.hp < 40 /\ state.bot.mana >= 25
             /\ canUseTool(state.bot, "heal").valid) =>
           TOOLS[ExampleAttack(state.bot)].name \in decisions

\* the bot, with Lightning on cooldown, has just cast Fireball
C34_Witness ==
  /\ result = Undefined
  /\ state.lastAction # Null
  /\ state.lastAction.caster = "bot"
  /\ state.lastAction.toolKey = "fireball"
  /\ Cooling(state.bot, "lightning")

\* C35: in turn-based mode every action the bot performs is an attack,
\* except heal (only when the bot's HP is below 40 at decision time), shield
\* (only when the bot's shield is exactly 0 at decision time) and dodge
\* (only when dodging is enabled); the random fallback over all usable
\* tools is never reached, an attack being usable whenever the bot decides.
C35_BotActions ==
  [][(~isRealTime /\ DecideStep) =>
       /\ UsableAttacks(state.bot) # {}
       /\ result'.success
       /\ \A cast \in {state'.lastAction} :
            /\ cast.caster = "bot"
            /\ \/ TOOLS[cast.toolKey].type = "attack"
               \/ cast.toolKey = "heal" /\ state.bot.hp < 40
               \/ cast.toolKey = "shield" /\ state.bot.shield = 0
               \/ cast.toolKey = "dodge" /\ settings.dodgingEnabled]_vars

\* in a turn-based match the bot has healed itself and, on a later turn of
\* its own, has just raised its shield
C35_Witness ==
  /\ ~isRealTime
  /\ result # Undefined
  /\ result.success
  /\ state.lastAction.caster = "bot"
  /\ state.lastAction.toolKey = "shield"
  /\ "heal" \in DOMAIN state.bot.cooldowns

\* C37: turn-based matches never deadlock: in every non-terminal turn-based
\* state the entity holding the turn has mana >= 10 and Strike off cooldown,
\* hence a tool it can cast successfully; so on the bot's turn makeDecision
\* never returns no selection, and the bot's takeTurn always passes the
\* turn back to the player.
C37_NoDeadlockAsClaimed ==
  [][/\ (~isRealTime /\ ~state.gameOver) =>
          \A holder \in {state[state.turn]} :
            /\ holder.mana >= TOOLS["strike"].manaCost
            /\ ~Cooling(holder, "strike")
            /\ canUseTool(holder, "strike").valid
            /\ result = Undefined =>
                 useTool(state, NameText(TOOLS["strike"].name),
                         state.turn = "player").ret.success
     /\ (~isRealTime /\ ~state.gameOver /\ state.turn = "bot") =>
          NoTool \notin makeDecisions(state)
     /\ (~isRealTime /\ DecideStep) =>
          /\ state.turn = "bot"
          /\ result'.success
          /\ state'.turn = "player"]_vars

\* C37: turn-based matches never deadlock: in every non-terminal turn-based
\* state the entity holding the turn has mana >= 10 and Strike off cooldown,
\* hence a tool it can cast successfully; so on the bot's turn makeDecision
\* never returns no selection, and the bot's takeTurn passes the turn back
\* to the player unless its action ends the match.
C37_NoDeadlock ==
  [][/\ (~isRealTime /\ ~state.gameOver) =>
          \A holder \in {state[state.turn]} :
            /\ holder.mana >= TOOLS["strike"].manaCost
            /\ ~Cooling(holder, "strike")
            /\ canUseTool(holder, "strike").valid
            /\ result = Undefined =>
                 useTool(state, NameText(TOOLS["strike"].name),
                         state.turn = "player").ret.success
     /\ (~isRealTime /\ ~state.gameOver /\ state.turn = "bot") =>
          NoTool \notin makeDecisions(state)
     /\ (~isRealTime /\ DecideStep) =>
          /\ state.turn = "bot"
          /\ result'.success
          /\ state'.turn = (IF state'.gameOver THEN "bot" ELSE "player")]_vars

\* in a turn-based match the bot's third action has just passed the turn
\* back to a player who has cast three spells
C37_Witness ==
  /\ ~isRealTime
  /\ ~state.gameOver
  /\ result # Undefined
  /\ result.success
  /\ state.lastAction.caster = "bot"
  /\ state.turn = "player"
  /\ state.turnCount = 6
  /\ Cardinality(DOMAIN state.player.cooldowns) = 3

\* entity has just cast toolKey in a turn-based match, at turn n, without
\* ending the match
CastAt(entity, toolKey, n) ==
  /\ ~isRealTime
  /\ result # Undefined
  /\ result.success
  /\ ~state.gameOver
  /\ state.lastAction.caster = entity
  /\ state.lastAction.toolKey = toolKey
  /\ state.turnCount = n + 1

\* entity holds the turn for the k-th time since turn n, which was its own
OwnTurn(entity, n, k) ==
  /\ ~isRealTime
  /\ ~state.gameOver
  /\ state.turn = entity
  /\ state.turnCount = n + 2 * k

\* the number of own turns on which a tool of cooldown c is refused after
\* its cast: ceil(c / 2) - 1
RefusedTurns(c) == (c + 1) \div 2 - 1

\* own turns after a cast that a match of MaxDuelTurns turn changes shows
FollowingTurns == 1..(MaxDuelTurns \div 2)

\* the turns of a match and the entity that can cast on each: the player
\* on the even ones, the bot on the odd ones
CastTurns ==
  {turn \in Entities \X (0..(MaxDuelTurns - 2)) :
     turn[2] % 2 = (IF turn[1] = "player" THEN 0 ELSE 1)}

\* C38 as claimed: in turn-based mode, after an entity casts a tool with
\* catalog cooldown c in a non-terminal action, its cooldown for that tool
\* at the start of its k-th following own turn is max(0, c - 2k), so the
\* tool is refused for cooldown on exactly its next ceil(c/2) - 1 own turns.
C38_CooldownPerRoundAsClaimed ==
  \A turn \in CastTurns, toolKey \in DOMAIN TOOLS :
    [](CastAt(turn[1], toolKey, turn[2]) =>
         [](\A k \in FollowingTurns :
              OwnTurn(turn[1], turn[2], k) =>
                /\ cooldownOf(state[turn[1]], toolKey)
                     = Max(0, TOOLS[toolKey].cooldown - 2 * k) * Milli
                /\ Cooling(state[turn[1]], toolKey)
                     <=> k <= RefusedTurns(TOOLS[toolKey].cooldown)))

\* a step in which entity casts toolKey
Casts(entity, toolKey) ==
  /\ UseToolStep
  /\ result'.success
  /\ state'.lastAction.caster = entity
  /\ state'.lastAction.toolKey = toolKey

\* C38: in turn-based mode cooldowns tick once per action of either entity,
\* twice per full round: after an entity casts a tool with catalog cooldown
\* c in a non-terminal action, and as long as it has not cast the tool
\* again, its cooldown for that tool at the start of its k-th following own
\* turn is max(0, c - 2k); the tool is refused for cooldown on exactly its
\* next ceil(c/2) - 1 own turns, and tools with c <= 2 are never refused for
\* cooldown.  The tool cannot be cast again before the turn on which the
\* cooldown first reads 0, the ceil(c/2)-th, and on later turns the
\* cooldown reads 0 because it only falls while the tool is not cast.
C38_CooldownPerRound ==
  /\ \A turn \in CastTurns, toolKey \in DOMAIN TOOLS :
       [](CastAt(turn[1], toolKey, turn[2]) =>
            [](\A k \in 1..(RefusedTurns(TOOLS[toolKey].cooldown) + 1) :
                 OwnTurn(turn[1], turn[2], k) =>
                   /\ cooldownOf(state[turn[1]], toolKey)
                        = Max(0, TOOLS[toolKey].cooldown - 2 * k) * Milli
                   /\ Cooling(state[turn[1]], toolKey)
                        <=> k <= RefusedTurns(TOOLS[toolKey].cooldown)
                   /\ TOOLS[toolKey].cooldown <= 2
                        => ~Cooling(state[turn[1]], toolKey)))
  /\ [][~isRealTime =>
          \A entity \in Entities, toolKey \in DOMAIN TOOLS :
            ~Casts(entity, toolKey) =>
              /\ cooldownOf(state'[entity], toolKey)
                   <= cooldownOf(state[entity], toolKey)
              /\ cooldownOf(state'[entity], toolKey)
                   = Max(0, cooldownOf(state[entity], toolKey)
                              - (state'.turnCount - state.turnCount) * Milli)]_vars

\* in a turn-based match the player cast Heal on the first turn, and now
\* holds the turn for the third time since, with Heal ready again
C38_Witness ==
  /\ ~isRealTime
  /\ ~state.gameOver
  /\ result = Undefined
  /\ state.turn = "player"
  /\ state.turnCount = 6
  /\ "heal" \in DOMAIN state.player.cooldowns
  /\ Cardinality(DOMAIN state.player.cooldowns) = 3
  /\ ~Cooling(state.player, "heal")

\* C36: in every terminal state exactly one entity has HP 0 and the other
\* has HP > 0 (the two are never at 0 HP together), and winner is the
\* entity with HP > 0, which is also the caster recorded in lastAction.
C36_OneLoser ==
  [][state'.gameOver =>
       \E loser \in Entities :
         /\ state'[loser].hp = 0
         /\ state'[Other(loser)].hp > 0
         /\ state'.winner = Other(loser)
         /\ state'.lastAction # Null
         /\ state'.lastAction.caster = Other(loser)]_vars

\* the bot has just won a match in which it was itself hit
C36_Witness ==
  /\ state.gameOver
  /\ result # Undefined
  /\ result.success
  /\ state.winner = "bot"
  /\ state.player.hp = 0
  /\ state.bot.hp < state.bot.maxHp

\* the fields of an entity that the effects of a cast may write when the
\* entity is the cast's caster (asCaster) or its target
Touched(toolKey, asCaster) ==
  IF TOOLS[toolKey].type = "attack"
  THEN IF asCaster THEN {} ELSE {"hp", "shield", "isDodging"}
  ELSE IF ~asCaster THEN {}
  ELSE IF toolKey = "heal" THEN {"hp"}
  ELSE IF toolKey = "shield" THEN {"shield"}
  ELSE {"isDodging"}

\* C39: in real-time mode a successful useTool changes only the caster's
\* mana (minus exactly the tool's cost), the caster's cooldown entry for the
\* cast tool, the fields its effects touch (the target's HP, shield and
\* dodge flag for damage; the caster's HP, shield or dodge flag for heal,
\* shield, dodge), lastAction and possibly gameOver and winner; the target's
\* mana and cooldowns and the caster's other cooldown entries are unchanged.
C39_RealTimeFrame ==
  [][(isRealTime /\ UseToolStep /\ result'.success) =>
       \A cast \in {state'.lastAction} :
         \A caster \in {state[cast.caster]}, target \in {state[Other(cast.caster)]},
            caster2 \in {state'[cast.caster]}, target2 \in {state'[Other(cast.caster)]} :
           /\ caster2.mana = caster.mana - TOOLS[cast.toolKey].manaCost
           /\ DOMAIN caster2.cooldowns = DOMAIN caster.cooldowns \cup {cast.toolKey}
           /\ caster2.cooldowns[cast.toolKey] = TOOLS[cast.toolKey].cooldown * Milli
           /\ \A k \in DOMAIN caster.cooldowns \ {cast.toolKey} :
                caster2.cooldowns[k] = caster.cooldowns[k]
           /\ target2.mana = target.mana
           /\ target2.cooldowns = target.cooldowns
           /\ \A field \in DOMAIN caster \ ({"mana", "cooldowns"}
                                              \cup Touched(cast.toolKey, TRUE)) :
                caster2[field] = caster[field]
           /\ \A field \in DOMAIN target \ Touched(cast.toolKey, FALSE) :
                target2[field] = target[field]
           /\ state'.turn = state.turn
           /\ state'.turnCount = state.turnCount
           /\ DOMAIN state' = DOMAIN state]_vars

\* in a real-time match the bot, with two other tools on cooldown and the
\* player's Lightning on cooldown too, has just cast Fireball
C39_Witness ==
  /\ isRealTime
  /\ result # Undefined
  /\ result.success
  /\ state.lastAction.caster = "bot"
  /\ state.lastAction.toolKey = "fireball"
  /\ Cardinality(DOMAIN state.bot.cooldowns) = 3
  /\ DOMAIN state.player.cooldowns # {}

====
